---- MODULE Spec2Model ----
(***************************************************************************)
(* A model of the transform pipeline of the serverless ETL service: the    *)
(* generative enricher (transformers/dataEnricher.js), the transform       *)
(* handler (handlers/transformHandler.js) and the cleaner and validator it *)
(* sequences.                                                              *)
(*                                                                         *)
(* JSON values are tagged records: [t |-> "null"], [t |-> "str", v |-> s], *)
(* [t |-> "num", v |-> n], [t |-> "bool", v |-> b], [t |-> "obj", v |-> f] *)
(* with f a function from the object's keys to values, and                 *)
(* [t |-> "arr", v |-> s] with s a sequence of values.                      *)
(***************************************************************************)
EXTENDS Integers, Sequences, FiniteSets, TLC

VARIABLES
    \* ---- enrichData (dataEnricher.js) ----
    eData,          \* the data argument
    eOpts,          \* the options argument {fields, instruction, batchSize}
    ePc,            \* "idle" | "start" | "awaitBatch" | "awaitSingle" | "done"
    batches,        \* const batches = []
    bi,             \* the batch loop index i of the processing loop (1-based)
    batchPromises,  \* the promises of the batch being awaited
    enrichedData,   \* const enrichedData = []
    eResult,        \* what enrichData resolved with
    \* history of the generation calls, by the id of the record they are for
    callState,      \* id -> "none" | "inflight" | "resolved" | "rejected"
    callArg,        \* id -> the first argument of the generation call
    genOut,         \* id -> what the generation call settled with
    \* ---- transform (transformHandler.js) ----
    req,            \* req.body: {data, recordId, transformations, options}
    tPc,            \* where the handler is: "idle" | "start" | "find" | a step | "persist" | "done"
    sourceData,     \* let sourceData
    dataRecord,     \* let dataRecord
    transformedData,        \* let transformedData
    transformationResults,  \* const transformationResults = {}
    response,       \* what the handler returned
    db,             \* the record the persistence collaborator holds
    stepLog,        \* history: the steps run, with the data handed to each
    \* ---- one call of a function of the transformers or of the client ----
    call,           \* the function called and its arguments
    gen,            \* what the generation capability answered during the call
    issued,         \* the generation calls the call made
    ret,            \* what the call returned
    heap            \* the objects and arrays in memory during the call, by address

evars == <<eData, eOpts, ePc, batches, bi, batchPromises, enrichedData,
           eResult, callState, callArg, genOut>>

tvars == <<req, tPc, sourceData, dataRecord, transformedData,
           transformationResults, response, db, stepLog>>

cvars == <<call, gen, issued, ret, heap>>

vars == <<evars, tvars, cvars>>

(***************************************************************************)
(* Bounds of the model.                                                    *)
(***************************************************************************)
MaxItems == 3
MaxBatchSize == 2
MaxRecords == 2
MaxElements == 3

(***************************************************************************)
(* JSON values.                                                            *)
(***************************************************************************)
Null == [t |-> "null"]
Str(s) == [t |-> "str", v |-> s]
Num(n) == [t |-> "num", v |-> n]
Bool(b) == [t |-> "bool", v |-> b]
Obj(f) == [t |-> "obj", v |-> f]
Arr(s) == [t |-> "arr", v |-> s]

IsArray(x) == x.t = "arr"
IsObject(x) == x.t = "obj"

\* an absent optional argument or property (undefined), and a present one
Absent == [has |-> FALSE]
Some(x) == [has |-> TRUE, v |-> x]

Range(s) == {s[i] : i \in 1..Len(s)}

(***************************************************************************)
(* The records the model is run on.  Record k carries id k; records 1 and  *)
(* 2 agree on name and differ elsewhere, record 3 has no name, record 4    *)
(* already has a greeting.                                                 *)
(***************************************************************************)
Rec(k) ==
    CASE k % 4 = 1 -> Obj([id |-> Num(k), name |-> Str("John"), email |-> Str("john@example.com")])
      [] k % 4 = 2 -> Obj([id |-> Num(k), name |-> Str("John")])
      [] k % 4 = 3 -> Obj([id |-> Num(k), email |-> Str("jane@example.com")])
      [] OTHER     -> Obj([id |-> Num(k), name |-> Str("Jane"), greeting |-> Str("old")])

RecArray(n) == Arr([k \in 1..n |-> Rec(k)])

IdOf(item) == item.v["id"].v

\* the objects a successful generation call may return
GenObjects ==
    { [greeting |-> Str("Hello")],
      [name |-> Str("JOHN"), score |-> Num(9)] }

\* the outcomes of a generation call: it rejects, or resolves with an object
Rejected == [ok |-> FALSE]
Resolved(g) == [ok |-> TRUE, g |-> g]
GenOutcomes == {Rejected} \cup {Resolved(g) : g \in GenObjects}
Pending == [ok |-> FALSE, pending |-> TRUE]

(***************************************************************************)
(* processItem (dataEnricher.js): the subset sent to the generation call   *)
(* and the merge of its answer into the item.                              *)
(***************************************************************************)
\* mutant: the whole item is sent whatever fields says
subset_whole(item, fields) == item

\* fields.reduce((obj, field) => { if (field in item) obj[field] = item[field] })
subset(item, fields) ==
    IF fields.has
    THEN Obj([k \in {f \in Range(fields.v) : f \in DOMAIN item.v} |-> item.v[k]])
    ELSE item

\* mutant: { ...enrichedSubset, ...item }
merge_itemWins(item, enrichedSubset) ==
    Obj([k \in DOMAIN item.v \cup DOMAIN enrichedSubset |->
            IF k \in DOMAIN item.v THEN item.v[k] ELSE enrichedSubset[k]])

\* { ...item, ...enrichedSubset }
merge(item, enrichedSubset) ==
    Obj([k \in DOMAIN item.v \cup DOMAIN enrichedSubset |->
            IF k \in DOMAIN enrichedSubset THEN enrichedSubset[k] ELSE item.v[k]])

\* mutant: the catch returns the subset that was sent, not the item
processItem_returnsSubset(item, fields, outcome) ==
    IF outcome.ok THEN merge(item, outcome.g) ELSE subset(item, fields)

\* what processItem resolves with once the generation call has settled
processItem(item, fields, outcome) ==
    IF outcome.ok THEN merge(item, outcome.g) ELSE item

(***************************************************************************)
(* enrichData (dataEnricher.js).                                           *)
(***************************************************************************)
DefaultBatchSize == 10

batchSizeOf(options) ==
    IF options.batchSize.has THEN options.batchSize.v ELSE DefaultBatchSize

\* mutant: instruction === undefined, an empty instruction passes
NoInstruction_undefinedOnly(options) == ~options.instruction.has

\* !instruction
NoInstruction(options) ==
    ~options.instruction.has \/ options.instruction.v = ""

Min(a, b) == IF a < b THEN a ELSE b

\* mutant: no batching, every record goes into one batch
createBatches_oneBatch(data, batchSize) ==
    IF Len(data) = 0 THEN <<>> ELSE <<data>>

\* for (let i = 0; i < data.length; i += batchSize) batches.push(data.slice(i, i + batchSize))
createBatches(data, batchSize) ==
    LET n == Len(data)
        nb == (n + batchSize - 1) \div batchSize
    IN  [b \in 1..nb |->
            SubSeq(data, (b - 1) * batchSize + 1, Min(b * batchSize, n))]

\* batches[i].map(item => processItem(item, fields, instruction)): every item's
\* generation call is issued before the await
dispatch(batch) ==
    [p \in 1..Len(batch) |-> [state |-> "pending", item |-> batch[p], value |-> Null]]

NoCalls(ids) == [k \in ids |-> "none"]

\* no transform request is being handled
TransformIdle ==
    /\ req = Absent
    /\ tPc = "idle"
    /\ sourceData = Absent
    /\ dataRecord = Absent
    /\ transformedData = Absent
    /\ transformationResults = <<>>
    /\ response = Absent
    /\ db = Absent
    /\ stepLog = <<>>

\* no single function call is being followed
CallIdle ==
    /\ call = Absent
    /\ gen = <<>>
    /\ issued = {}
    /\ ret = Absent
    /\ heap = <<>>

EnrichInit ==
    /\ eData \in {RecArray(n) : n \in 0..MaxItems} \cup {Rec(1), Str("scalar")}
    /\ eOpts \in [fields : {Absent, Some(<<"name">>), Some(<<"name", "email", "phone">>), Some(<<>>)},
                  instruction : {Absent, Some(""), Some("Add a greeting")},
                  batchSize : {Absent} \cup {Some(b) : b \in 1..MaxBatchSize}]
    /\ ePc = "start"
    /\ batches = <<>>
    /\ bi = 0
    /\ batchPromises = <<>>
    /\ enrichedData = <<>>
    /\ eResult = Absent
    /\ callState = NoCalls(1..MaxItems)
    /\ callArg = [k \in 1..MaxItems |-> Absent]
    /\ genOut = [k \in 1..MaxItems |-> Pending]
    /\ TransformIdle
    /\ CallIdle

\* the generation calls issued when a batch is dispatched
IssueCalls(batch) ==
    LET ids == {IdOf(batch[p]) : p \in 1..Len(batch)}
        itemOf(k) == CHOOSE it \in Range(batch) : IdOf(it) = k
    IN  /\ callState' = [k \in DOMAIN callState |->
                            IF k \in ids THEN "inflight" ELSE callState[k]]
        /\ callArg' = [k \in DOMAIN callArg |->
                            IF k \in ids THEN Some(subset(itemOf(k), eOpts.fields)) ELSE callArg[k]]

\* enrichData up to its first await (or to its return when it awaits nothing)
EnrichStart ==
    /\ ePc = "start"
    /\ IF NoInstruction(eOpts)
       THEN \* throw new Error('Enrichment instruction is required'), caught
            \* by the function's own catch: return data
            /\ eResult' = Some(eData)
            /\ ePc' = "done"
            /\ UNCHANGED <<batches, bi, batchPromises, callState, callArg>>
       ELSE IF IsArray(eData)
       THEN LET bs == createBatches(eData.v, batchSizeOf(eOpts))
            IN  /\ batches' = bs
                /\ IF Len(bs) = 0
                   THEN /\ eResult' = Some(Arr(<<>>))
                        /\ ePc' = "done"
                        /\ UNCHANGED <<bi, batchPromises, callState, callArg>>
                   ELSE /\ bi' = 1
                        /\ batchPromises' = dispatch(bs[1])
                        /\ IssueCalls(bs[1])
                        /\ ePc' = "awaitBatch"
                        /\ UNCHANGED eResult
       ELSE IF IsObject(eData)
       THEN /\ batchPromises' = dispatch(<<eData>>)
            /\ IssueCalls(<<eData>>)
            /\ ePc' = "awaitSingle"
            /\ UNCHANGED <<batches, bi, eResult>>
       ELSE \* 'Data is not an object or array, returning original data'
            /\ eResult' = Some(eData)
            /\ ePc' = "done"
            /\ UNCHANGED <<batches, bi, batchPromises, callState, callArg>>
    /\ UNCHANGED <<eData, eOpts, enrichedData, genOut>>
    /\ UNCHANGED <<tvars, cvars>>

\* one generation call settles, in any order, and its processItem continues:
\* return { ...item, ...enrichedSubset }, or return item from the catch
Settle(p, outcome) ==
    /\ ePc \in {"awaitBatch", "awaitSingle"}
    /\ p \in 1..Len(batchPromises)
    /\ batchPromises[p].state = "pending"
    /\ LET item == batchPromises[p].item
       IN  /\ batchPromises' = [batchPromises EXCEPT ![p] =
                  [state |-> "fulfilled", item |-> item,
                   value |-> processItem(item, eOpts.fields, outcome)]]
           /\ callState' = [callState EXCEPT ![IdOf(item)] =
                  IF outcome.ok THEN "resolved" ELSE "rejected"]
           /\ genOut' = [genOut EXCEPT ![IdOf(item)] = outcome]
    /\ UNCHANGED <<eData, eOpts, ePc, batches, bi, enrichedData, eResult, callArg>>
    /\ UNCHANGED <<tvars, cvars>>

\* mutant: Promise.race, the await ends with the first call that settles
AnyFulfilled == \E p \in 1..Len(batchPromises) : batchPromises[p].state = "fulfilled"

\* Promise.all(batchPromises) has resolved: every promise of the batch is fulfilled
AllFulfilled == \A p \in 1..Len(batchPromises) : batchPromises[p].state = "fulfilled"

\* const batchResults = await Promise.all(batchPromises)
batchResultsOf(promises) == [p \in 1..Len(promises) |-> promises[p].value]

\* mutant: enrichedData.unshift(...batchResults)
pushResults_unshift(enriched, batchResults) == batchResults \o enriched

\* enrichedData.push(...batchResults)
pushResults(enriched, batchResults) == enriched \o batchResults

\* Promise.all resolves: enrichedData.push(...batchResults), then the next
\* batch is dispatched or the function returns
BatchDone ==
    /\ ePc = "awaitBatch"
    /\ AllFulfilled
    /\ LET pushed == pushResults(enrichedData, batchResultsOf(batchPromises))
       IN  /\ enrichedData' = pushed
           /\ IF bi < Len(batches)
              THEN /\ bi' = bi + 1
                   /\ batchPromises' = dispatch(batches[bi + 1])
                   /\ IssueCalls(batches[bi + 1])
                   /\ UNCHANGED <<ePc, eResult>>
              ELSE /\ eResult' = Some(Arr(pushed))
                   /\ ePc' = "done"
                   /\ UNCHANGED <<bi, batchPromises, callState, callArg>>
    /\ UNCHANGED <<eData, eOpts, batches, genOut>>
    /\ UNCHANGED <<tvars, cvars>>

\* const result = await processItem(data, fields, instruction); return result
SingleDone ==
    /\ ePc = "awaitSingle"
    /\ AllFulfilled
    /\ eResult' = Some(batchPromises[1].value)
    /\ ePc' = "done"
    /\ UNCHANGED <<eData, eOpts, batches, bi, batchPromises, enrichedData,
                   callState, callArg, genOut>>
    /\ UNCHANGED <<tvars, cvars>>

EnrichNext ==
    \/ EnrichStart
    \/ \E p \in 1..MaxItems, outcome \in GenOutcomes : Settle(p, outcome)
    \/ BatchDone
    \/ SingleDone

SpecEnrich == EnrichInit /\ [][EnrichNext]_vars

(***************************************************************************)
(* The structural cleaner (transformers/dataCleaner.js).                   *)
(***************************************************************************)
IsContainer(x) == x.t \in {"obj", "arr"}

\* typeof value === 'string'
IsString(x) == x.t = "str"

\* JavaScript truthiness of a JSON value
Truthy(x) ==
    CASE x.t = "null" -> FALSE
      [] x.t = "str"  -> x.v # ""
      [] x.t = "num"  -> x.v # 0
      [] x.t = "bool" -> x.v
      [] OTHER        -> TRUE

\* mutant: the filter also drops empty strings
keepsItem_dropsEmptyStrings(item) == item # Null /\ item # Str("")

\* data.filter(item => item !== null && item !== undefined)
keepsItem(item) == item # Null

\* mutant: empty containers are dropped with the empty values
keepsEntry_dropsEmptyContainers(value) ==
    value # Null /\ value # Str("") /\ value # Obj(<<>>) /\ value # Arr(<<>>)

\* value !== null && value !== undefined && value !== ''
keepsEntry(value) == value # Null /\ value # Str("")

RECURSIVE removeEmptyValues(_)
removeEmptyValues(data) ==
    IF IsArray(data)
    THEN LET kept == SelectSeq(data.v, keepsItem)
         IN  Arr([i \in 1..Len(kept) |->
                    IF IsContainer(kept[i]) THEN removeEmptyValues(kept[i]) ELSE kept[i]])
    ELSE IF IsObject(data)
    THEN LET keys == {k \in DOMAIN data.v : keepsEntry(data.v[k])}
         IN  Obj([k \in keys |->
                    IF IsContainer(data.v[k]) THEN removeEmptyValues(data.v[k]) ELSE data.v[k]])
    ELSE data

\* value.trim(), on the strings of the model
trim(str) ==
    CASE str = " A "    -> "A"
      [] str = " a "    -> "a"
      [] str = "a "     -> "a"
      [] str = " a !"   -> "a !"
      [] str = " Tech " -> "Tech"
      [] str = "  "     -> ""
      [] str = "{\"greeting\": \"Hello\"}\n"   -> "{\"greeting\": \"Hello\"}"
      [] str = "\n{\"greeting\": \"Hello\"}"   -> "{\"greeting\": \"Hello\"}"
      [] OTHER          -> str

\* value.toLowerCase(), on the strings of the model
toLowerCase(str) ==
    CASE str = " A "  -> " a "
      [] str = "A"    -> "a"
      [] str = "Tech" -> "tech"
      [] str = " Tech " -> " tech "
      [] str = "John" -> "john"
      [] str = "Jane" -> "jane"
      [] str = "JOHN" -> "john"
      [] OTHER        -> str

\* value.replace(/[^\w\s]/gi, ''), on the strings of the model
removeSpecialChars(str) ==
    CASE str = "a !"  -> "a "
      [] str = " a !" -> " a "
      [] str = "john@example.com" -> "johnexamplecom"
      [] str = "jane@example.com" -> "janeexamplecom"
      [] OTHER        -> str

\* an option of an options object, or its default when it is undefined
OptOr(options, name, default) ==
    IF name \in DOMAIN options /\ options[name].has THEN options[name].v ELSE default

\* the body of the loop over textFields in cleanTextFields' processValue
cleanText(str, options) ==
    LET t1 == IF OptOr(options, "trim", TRUE) THEN trim(str) ELSE str
        t2 == IF OptOr(options, "lowercase", FALSE) THEN toLowerCase(t1) ELSE t1
    IN  IF OptOr(options, "removeSpecialChars", FALSE) THEN removeSpecialChars(t2) ELSE t2

RECURSIVE cleanTextFields(_, _, _)
cleanTextFields(data, textFields, options) ==
    LET processValue(item) ==
            IF IsObject(item)
            THEN Obj([k \in DOMAIN item.v |->
                    LET val == IF k \in Range(textFields) /\ IsString(item.v[k])
                               THEN Str(cleanText(item.v[k].v, options))
                               ELSE item.v[k]
                    IN  IF IsContainer(val) THEN cleanTextFields(val, textFields, options)
                        ELSE val])
            ELSE IF IsArray(item)
            THEN Arr([i \in 1..Len(item.v) |->
                    IF IsContainer(item.v[i])
                    THEN cleanTextFields(item.v[i], textFields, options)
                    ELSE item.v[i]])
            ELSE item
    IN  IF Len(textFields) = 0 THEN data
        ELSE IF IsArray(data)
        THEN Arr([i \in 1..Len(data.v) |-> processValue(data.v[i])])
        ELSE processValue(data)

\* new Date(value).toISOString() on the values of the model, "" when the date
\* is invalid (isNaN(date.getTime()))
toISOString(value) ==
    CASE value = Str("2023-01-15")               -> "2023-01-15T00:00:00.000Z"
      [] value = Str("2023-01-15T00:00:00.000Z") -> "2023-01-15T00:00:00.000Z"
      [] value = Str("2023-01-15T10:30:00.000Z") -> "2023-01-15T10:30:00.000Z"
      [] value = Num(1)                          -> "1970-01-01T00:00:00.001Z"
      [] value = Str("1970-01-01T00:00:00.001Z") -> "1970-01-01T00:00:00.001Z"
      [] value = Str("1970-01-01")               -> "1970-01-01T00:00:00.000Z"
      [] OTHER                                   -> ""

\* date.toISOString().split('T')[0]
isoDay(iso) ==
    CASE iso = "2023-01-15T00:00:00.000Z" -> "2023-01-15"
      [] iso = "2023-01-15T10:30:00.000Z" -> "2023-01-15"
      [] iso = "1970-01-01T00:00:00.001Z" -> "1970-01-01"
      [] iso = "1970-01-01T00:00:00.000Z" -> "1970-01-01"
      [] OTHER                            -> iso

\* the body of the loop over dateFields in standardizeDates' processValue
standardizeDate(value, dateFormat) ==
    LET iso == toISOString(value)
    IN  IF ~Truthy(value) \/ iso = "" THEN value
        ELSE IF dateFormat = "ISO" THEN Str(iso)
        ELSE IF dateFormat = "YYYY-MM-DD" THEN Str(isoDay(iso))
        ELSE value

RECURSIVE standardizeDates(_, _, _)
standardizeDates(data, dateFields, dateFormat) ==
    LET processValue(item) ==
            IF IsObject(item)
            THEN Obj([k \in DOMAIN item.v |->
                    LET val == IF k \in Range(dateFields)
                               THEN standardizeDate(item.v[k], dateFormat)
                               ELSE item.v[k]
                    IN  IF IsContainer(val) THEN standardizeDates(val, dateFields, dateFormat)
                        ELSE val])
            ELSE IF IsArray(item)
            THEN Arr([i \in 1..Len(item.v) |->
                    IF IsContainer(item.v[i])
                    THEN standardizeDates(item.v[i], dateFields, dateFormat)
                    ELSE item.v[i]])
            ELSE item
    IN  IF Len(dateFields) = 0 THEN data
        ELSE IF IsArray(data)
        THEN Arr([i \in 1..Len(data.v) |-> processValue(data.v[i])])
        ELSE processValue(data)

\* the outcome of a call: it returned a value, or it threw an error
Returned(x) == [threw |-> FALSE, value |-> x]
Threw(msg) == [threw |-> TRUE, error |-> msg]

\* options.<name> is null: reading a property of it is a TypeError
IsNullOpt(options, name) ==
    /\ name \in DOMAIN options
    /\ options[name].has
    /\ "t" \in DOMAIN options[name].v
    /\ options[name].v.t = "null"

\* mutant: removeEmptyValues runs last, after the date and the text pass
cleanData_removesEmptyLast(data, options) ==
    LET removeEmpty == OptOr(options, "removeEmpty", TRUE)
        dateFields  == OptOr(options, "dateFields", Arr(<<>>)).v
        dateFormat  == OptOr(options, "dateFormat", "ISO")
        textFields  == OptOr(options, "textFields", Arr(<<>>)).v
        textOptions == OptOr(options, "textOptions", <<>>)
        r1 == standardizeDates(data, dateFields, dateFormat)
        r2 == cleanTextFields(r1, textFields, textOptions)
    IN  Returned(IF removeEmpty THEN removeEmptyValues(r2) ELSE r2)

\* cleanData: dateFields.length and textFields.length are read on whatever the
\* options hold, and the destructuring of textOptions happens in
\* cleanTextFields; the catch logs and rethrows
cleanData(data, options) ==
    LET removeEmpty == OptOr(options, "removeEmpty", TRUE)
        dateFields  == OptOr(options, "dateFields", Arr(<<>>)).v
        dateFormat  == OptOr(options, "dateFormat", "ISO")
        textFields  == OptOr(options, "textFields", Arr(<<>>)).v
        textOptions == OptOr(options, "textOptions", <<>>)
        r1 == IF removeEmpty THEN removeEmptyValues(data) ELSE data
    IN  IF IsNullOpt(options, "dateFields")
        THEN Threw("Cannot read properties of null (reading 'length')")
        ELSE LET r2 == standardizeDates(r1, dateFields, dateFormat)
             IN  IF IsNullOpt(options, "textFields")
                 THEN Threw("Cannot read properties of null (reading 'length')")
                 ELSE IF Len(textFields) > 0 /\ IsNullOpt(options, "textOptions")
                 THEN Threw("Cannot destructure property 'trim' of 'object null' as it is null.")
                 ELSE Returned(cleanTextFields(r2, textFields, textOptions))

(***************************************************************************)
(* The schema validator (transformers/dataValidator.js).  A schema, and    *)
(* the schema of a field, is a record of the keywords it gives, each       *)
(* Some(value): required (a sequence of names), properties (a sequence of  *)
(* field schemas, each with the name of its field under "field"), type,    *)
(* enum, minimum, maximum, minLength, maxLength, pattern, minItems,        *)
(* maxItems, items.                                                        *)
(***************************************************************************)
\* typeof value
typeOf(x) ==
    CASE x.t = "str"  -> "string"
      [] x.t = "num"  -> "number"
      [] x.t = "bool" -> "boolean"
      [] OTHER        -> "object"

\* the switch on fieldSchema.type
isValidType(type, x) ==
    CASE type = "string"  -> x.t = "str"
      [] type = "number"  -> x.t = "num"
      [] type = "boolean" -> x.t = "bool"
      [] type = "array"   -> x.t = "arr"
      [] type = "object"  -> x.t = "obj"
      [] OTHER            -> FALSE

\* field in item, for an item the in operator accepts
HasField(item, field) == IsObject(item) /\ field \in DOMAIN item.v

\* fieldSchema.<name>, Absent when the keyword is not given
Kw(fieldSchema, name) ==
    IF name \in DOMAIN fieldSchema THEN fieldSchema[name] ELSE Absent

\* a value inside a template literal or a join
valueText(x) ==
    CASE x.t = "str"  -> x.v
      [] x.t = "num"  -> ToString(x.v)
      [] x.t = "bool" -> IF x.v THEN "true" ELSE "false"
      [] x.t = "null" -> "null"
      [] OTHER        -> "[object Object]"

\* fieldSchema.enum.join(', ')
RECURSIVE join(_)
join(values) ==
    IF Len(values) = 0 THEN ""
    ELSE IF Len(values) = 1 THEN valueText(values[1])
    ELSE valueText(values[1]) \o ", " \o join(Tail(values))

\* new RegExp(pattern) throws a SyntaxError
regexInvalid(pattern) == pattern = "("

\* new RegExp(pattern).test(value), on the patterns and strings of the model
regexTest(pattern, str) ==
    CASE pattern = "^J"     -> str \in {"John", "Jane", "JOHN"}
      [] pattern = "@"      -> str \in {"john@example.com", "jane@example.com"}
      [] OTHER              -> FALSE

\* errors.map(error => prefix + error)
prefixed(prefix, errors) == [i \in 1..Len(errors) |-> prefix \o errors[i]]

\* schema.required.forEach: 'Missing required field: <field>'
RECURSIVE requiredErrors(_, _)
requiredErrors(item, required) ==
    IF Len(required) = 0 THEN <<>>
    ELSE LET field == Head(required)
         IN  (IF ~HasField(item, field) \/ item.v[field] = Null
              THEN <<"Missing required field: " \o field>>
              ELSE <<>>)
             \o requiredErrors(item, Tail(required))

RECURSIVE itemErrors(_, _)

\* mutant: the type of a field is checked even when the field is absent
fieldErrors_checksAbsent(item, fieldSchema) ==
    IF ~HasField(item, fieldSchema.field)
    THEN IF Kw(fieldSchema, "type").has
         THEN <<"Invalid type for field " \o fieldSchema.field \o ": expected "
                 \o fieldSchema.type.v \o ", got undefined">>
         ELSE <<>>
    ELSE <<>>

\* the body of Object.entries(schema.properties).forEach for one field
fieldErrors(item, fieldSchema) ==
    IF ~HasField(item, fieldSchema.field) THEN <<>>
    ELSE
    LET field == fieldSchema.field
        value == item.v[field]
        type == Kw(fieldSchema, "type")
        isType(t) == type.has /\ type.v = t
        enum == Kw(fieldSchema, "enum")
        minimum == Kw(fieldSchema, "minimum")
        maximum == Kw(fieldSchema, "maximum")
        minLength == Kw(fieldSchema, "minLength")
        maxLength == Kw(fieldSchema, "maxLength")
        pattern == Kw(fieldSchema, "pattern")
        minItems == Kw(fieldSchema, "minItems")
        maxItems == Kw(fieldSchema, "maxItems")
        items == Kw(fieldSchema, "items")
        when(cond, msg) == IF cond THEN <<msg>> ELSE <<>>
        elementErrors(index) ==
            LET element == value.v[index + 1]
                itemType == Kw(items.v, "type")
            IN  when(itemType.has /\ ~isValidType(itemType.v, element),
                     "Invalid type for item " \o ToString(index) \o " in field " \o field
                        \o ": expected " \o itemType.v \o ", got " \o typeOf(element))
                \o (IF itemType.has /\ itemType.v = "object" /\ IsContainer(element)
                       /\ Kw(items.v, "properties").has
                    THEN prefixed("In " \o field \o "[" \o ToString(index) \o "]: ",
                                  itemErrors(element, items.v))
                    ELSE <<>>)
        allElementErrors[n \in 0..Len(value.v)] ==
            IF n = 0 THEN <<>> ELSE allElementErrors[n - 1] \o elementErrors(n - 1)
    IN  when(type.has /\ value # Null /\ ~isValidType(type.v, value),
             "Invalid type for field " \o field \o ": expected " \o type.v
                \o ", got " \o typeOf(value))
        \o when(enum.has /\ value # Null /\ value \notin Range(enum.v),
                "Invalid value for field " \o field \o ": must be one of ["
                    \o join(enum.v) \o "]")
        \o (IF isType("number") /\ value.t = "num"
            THEN when(minimum.has /\ value.v < minimum.v,
                      "Invalid value for field " \o field \o ": must be at least "
                        \o ToString(minimum.v))
                 \o when(maximum.has /\ value.v > maximum.v,
                         "Invalid value for field " \o field \o ": must be at most "
                            \o ToString(maximum.v))
            ELSE <<>>)
        \o (IF isType("string") /\ value.t = "str"
            THEN when(minLength.has /\ Len(value.v) < minLength.v,
                      "Invalid length for field " \o field \o ": must be at least "
                        \o ToString(minLength.v) \o " characters")
                 \o when(maxLength.has /\ Len(value.v) > maxLength.v,
                         "Invalid length for field " \o field \o ": must be at most "
                            \o ToString(maxLength.v) \o " characters")
                 \o when(pattern.has /\ ~regexTest(pattern.v, value.v),
                         "Invalid format for field " \o field \o ": must match pattern "
                            \o pattern.v)
            ELSE <<>>)
        \o (IF isType("object") /\ IsContainer(value) /\ Kw(fieldSchema, "properties").has
            THEN prefixed("In " \o field \o ": ", itemErrors(value, fieldSchema))
            ELSE <<>>)
        \o (IF isType("array") /\ IsArray(value)
            THEN when(minItems.has /\ Len(value.v) < minItems.v,
                      "Invalid length for field " \o field \o ": must have at least "
                        \o ToString(minItems.v) \o " items")
                 \o when(maxItems.has /\ Len(value.v) > maxItems.v,
                         "Invalid length for field " \o field \o ": must have at most "
                            \o ToString(maxItems.v) \o " items")
                 \o (IF items.has /\ Len(value.v) > 0
                     THEN allElementErrors[Len(value.v)] ELSE <<>>)
            ELSE <<>>)

\* Object.entries(schema.properties).forEach: the errors of the fields present
RECURSIVE propertyErrors(_, _)
propertyErrors(item, properties) ==
    IF Len(properties) = 0 THEN <<>>
    ELSE fieldErrors(item, Head(properties)) \o propertyErrors(item, Tail(properties))

\* the errors validateItem collects when nothing throws
itemErrors(item, schema) ==
    LET required == Kw(schema, "required")
        properties == Kw(schema, "properties")
    IN  (IF required.has THEN requiredErrors(item, required.v) ELSE <<>>)
        \o (IF properties.has THEN propertyErrors(item, properties.v) ELSE <<>>)

\* the error validateItem throws, if it throws: field in item on null or on a
\* primitive is a TypeError, new RegExp of a broken pattern a SyntaxError
RECURSIVE itemThrows(_, _)
itemThrows(item, schema) ==
    LET required == IF Kw(schema, "required").has THEN schema.required.v ELSE <<>>
        properties == IF Kw(schema, "properties").has THEN schema.properties.v ELSE <<>>
        inError(field) ==
            Some("Cannot use 'in' operator to search for '" \o field \o "' in "
                 \o valueText(item))
        thrownBy(fs) ==
            IF ~HasField(item, fs.field) THEN Absent
            ELSE LET value == item.v[fs.field]
                     type == Kw(fs, "type")
                 IN  IF type.has /\ type.v = "string" /\ value.t = "str"
                        /\ Kw(fs, "pattern").has /\ regexInvalid(fs.pattern.v)
                     THEN Some("Invalid regular expression: /" \o fs.pattern.v
                               \o "/: Unterminated group")
                     ELSE IF type.has /\ type.v = "object" /\ IsContainer(value)
                             /\ Kw(fs, "properties").has
                     THEN itemThrows(value, fs)
                     ELSE IF type.has /\ type.v = "array" /\ IsArray(value)
                             /\ Kw(fs, "items").has
                             /\ Kw(fs.items.v, "type").has /\ fs.items.v.type.v = "object"
                             /\ Kw(fs.items.v, "properties").has
                     THEN LET nested == SelectSeq(value.v, LAMBDA element :
                                  IsContainer(element) /\ itemThrows(element, fs.items.v).has)
                          IN  IF Len(nested) > 0 THEN itemThrows(nested[1], fs.items.v)
                              ELSE Absent
                     ELSE Absent
        throwing == SelectSeq(properties, LAMBDA fs : thrownBy(fs).has)
    IN  IF ~IsContainer(item) /\ Len(required) > 0 THEN inError(required[1])
        ELSE IF ~IsContainer(item) /\ Len(properties) > 0 THEN inError(properties[1].field)
        ELSE IF Len(throwing) > 0 THEN thrownBy(throwing[1])
        ELSE Absent

\* what validateItem does, from the error it throws, if any, and the errors
\* it collects
itemOutcome(thrown, errors) ==
    IF thrown.has THEN Threw(thrown.v)
    ELSE Returned([isValid |-> Len(errors) = 0, errors |-> errors])

validateItem(item, schema) ==
    itemOutcome(itemThrows(item, schema), itemErrors(item, schema))

\* the indexes (1-based) of the elements of an array that validateItem accepts,
\* from the outcomes of validateItem on the elements
ValidIndexes(outcomes) ==
    {i \in 1..Len(outcomes) : outcomes[i].value.isValid}

RECURSIVE SeqOfSet(_)
\* the elements of a set of numbers as an increasing sequence
SeqOfSet(S) ==
    IF S = {} THEN <<>>
    ELSE LET m == CHOOSE x \in S : \A y \in S : x <= y
         IN  <<m>> \o SeqOfSet(S \ {m})

\* the result of the array branch, from the indexes data.forEach pushed to
\* validItems and those it pushed, with index and errors, to invalidItems
arrayResult(data, outcomes, valid, invalid, removeInvalid) ==
    [isValid |-> Len(invalid) = 0, errors |-> Absent,
     invalidItems |-> Some([k \in 1..Len(invalid) |->
                              [item |-> data.v[invalid[k]], index |-> invalid[k] - 1,
                               errors |-> outcomes[invalid[k]].value.errors]]),
     validItems |-> Some([k \in 1..Len(valid) |-> data.v[valid[k]]]),
     data |-> IF removeInvalid THEN Arr([k \in 1..Len(valid) |-> data.v[valid[k]]])
              ELSE data]

\* the array branch: outcomes[i] is what validateItem does on element i; the
\* first element on which it throws ends data.forEach
validateArray(data, outcomes, removeInvalid) ==
    IF \E i \in 1..Len(outcomes) : outcomes[i].threw
    THEN outcomes[CHOOSE i \in 1..Len(outcomes) :
                    /\ outcomes[i].threw
                    /\ \A j \in 1..(i - 1) : ~outcomes[j].threw]
    ELSE Returned(arrayResult(data, outcomes, SeqOfSet(ValidIndexes(outcomes)),
                              SeqOfSet((1..Len(outcomes)) \ ValidIndexes(outcomes)),
                              removeInvalid))

\* the record branch, from what validateItem does on the record
validateRecord(data, outcome) ==
    IF outcome.threw THEN outcome
    ELSE Returned([isValid |-> outcome.value.isValid, errors |-> Some(outcome.value.errors),
                   invalidItems |-> Absent, validItems |-> Absent, data |-> data])

\* the try block of validateData: what it returns, or the error it throws
validateDataTry(data, schema, removeInvalid) ==
    IF ~schema.has
    THEN Threw("Validation schema is required")
    ELSE IF IsArray(data)
    THEN validateArray(data, [i \in 1..Len(data.v) |-> validateItem(data.v[i], schema.v)],
                       removeInvalid)
    ELSE IF IsObject(data)
    THEN validateRecord(data, validateItem(data, schema.v))
    ELSE Returned([isValid |-> FALSE, errors |-> Some(<<"Data must be an object or array">>),
                   invalidItems |-> Absent, validItems |-> Absent, data |-> data])

\* the catch of validateData: an error thrown in the try block is returned as
\* { isValid: false, errors: [error.message], data }
caught(outcome, data) ==
    IF outcome.threw
    THEN Returned([isValid |-> FALSE, errors |-> Some(<<outcome.error>>),
                   invalidItems |-> Absent, validItems |-> Absent, data |-> data])
    ELSE outcome

\* mutant: no catch, the error leaves validateData
validateDataOutcome_rethrows(data, schema, removeInvalid) ==
    validateDataTry(data, schema, removeInvalid)

\* validateData with its try and its catch
validateDataOutcome(data, schema, removeInvalid) ==
    caught(validateDataTry(data, schema, removeInvalid), data)

validateData(data, schema, removeInvalid) ==
    validateDataOutcome(data, schema, removeInvalid).value

(***************************************************************************)
(* What the enricher's entry points resolve with, given what each          *)
(* generation call settles with (transformers/dataEnricher.js).            *)
(***************************************************************************)
\* enrichData: out[i] is the outcome of the call for item i
enrichDataResult(data, options, out) ==
    IF NoInstruction(options) THEN data
    ELSE IF IsArray(data)
    THEN Arr([i \in 1..Len(data.v) |-> processItem(data.v[i], options.fields, out[i])])
    ELSE IF IsObject(data) THEN processItem(data, options.fields, out[1])
    ELSE data

DefaultMaxLength == 100

\* the fields of an item that generateSummaries makes a call for
summaryFields(item, textFields, maxLength) ==
    {f \in Range(textFields) :
        /\ f \in DOMAIN item.v
        /\ IsString(item.v[f])
        /\ Len(item.v[f].v) > maxLength}

\* the generation call rejected, or it answered null and reading a property
\* of the answer (summary.summary, categorization.category) is a TypeError
answerFails(outcome) == ~outcome.ok \/ outcome.g = Null

\* summary.summary || summary.text || item[field]; a property of an answer
\* that is not an object is undefined
summaryValue(summary, original) ==
    IF IsObject(summary) /\ "summary" \in DOMAIN summary.v /\ Truthy(summary.v["summary"])
    THEN summary.v["summary"]
    ELSE IF IsObject(summary) /\ "text" \in DOMAIN summary.v /\ Truthy(summary.v["text"])
    THEN summary.v["text"]
    ELSE original

SummaryKeys(fs) == {f \o "_summary" : f \in fs}

\* the generation calls generateSummaries makes: the fields of an item are
\* summarized one after the other, each call awaited before the next, so a
\* field is reached only when the calls for the fields before it succeeded
summaryCalls(data, textFields, maxLengthOpt, out) ==
    LET maxLength == IF maxLengthOpt.has THEN maxLengthOpt.v ELSE DefaultMaxLength
        fields == IF textFields.has THEN textFields.v ELSE <<>>
        reached(item, i, p) ==
            /\ fields[p] \in summaryFields(item, fields, maxLength)
            /\ \A q \in 1..(p - 1) :
                    fields[q] \in summaryFields(item, fields, maxLength)
                        => ~answerFails(out[<<i, fields[q]>>])
        callsOf(item, i) ==
            {[index |-> i, field |-> fields[p], arg |-> Obj([text |-> item.v[fields[p]]])] :
                p \in {q \in 1..Len(fields) : reached(item, i, q)}}
    IN  IF Len(fields) = 0 THEN {}
        ELSE IF IsArray(data)
        THEN UNION {callsOf(data.v[i], i) : i \in 1..Len(data.v)}
        ELSE IF IsObject(data) THEN callsOf(data, 1)
        ELSE {}

\* generateSummaries: out[<<i, f>>] is the outcome of the call for field f of
\* item i; a failed call rejects Promise.all and the catch returns data
generateSummariesResult(data, textFields, maxLengthOpt, out) ==
    LET maxLength == IF maxLengthOpt.has THEN maxLengthOpt.v ELSE DefaultMaxLength
        fields == IF textFields.has THEN textFields.v ELSE <<>>
        called(item) == summaryFields(item, fields, maxLength)
        summarized(item, i) ==
            Obj([k \in DOMAIN item.v \cup SummaryKeys(called(item)) |->
                    IF k \in SummaryKeys(called(item))
                    THEN LET f == CHOOSE f \in called(item) : f \o "_summary" = k
                         IN  summaryValue(out[<<i, f>>].g, item.v[f])
                    ELSE item.v[k]])
    IN  IF Len(fields) = 0 THEN data
        ELSE IF IsArray(data)
        THEN IF \E i \in 1..Len(data.v) : \E f \in called(data.v[i]) : answerFails(out[<<i, f>>])
             THEN data
             ELSE Arr([i \in 1..Len(data.v) |-> summarized(data.v[i], i)])
        ELSE IF IsObject(data)
        THEN IF \E f \in called(data) : answerFails(out[<<1, f>>])
             THEN data
             ELSE summarized(data, 1)
        ELSE data

\* the category an item gets from what the generation call resolved with
categoryOf(categorization, categories) ==
    LET category ==
            IF IsObject(categorization)
            THEN IF "category" \in DOMAIN categorization.v
                    /\ Truthy(categorization.v["category"])
                 THEN categorization.v["category"]
                 ELSE IF DOMAIN categorization.v = {} THEN Null
                 ELSE categorization.v[CHOOSE k \in DOMAIN categorization.v : TRUE]
            ELSE categorization
    IN  IF IsString(category) /\ trim(category.v) \in Range(categories)
        THEN Str(trim(category.v))
        ELSE Str("Other")

withCategory(item, category) ==
    Obj([k \in DOMAIN item.v \cup {"category"} |->
            IF k = "category" THEN category ELSE item.v[k]])

\* the generation calls categorizeData makes: one for every item whose
\* textField is a string
categoryCalls(data, categoriesOpt, textFieldOpt) ==
    LET categories == IF categoriesOpt.has THEN categoriesOpt.v ELSE <<>>
        textField == IF textFieldOpt.has THEN textFieldOpt.v ELSE ""
        called(item) == textField \in DOMAIN item.v /\ IsString(item.v[textField])
        callOf(item, i) ==
            [index |-> i, field |-> textField, arg |-> Obj([text |-> item.v[textField]])]
    IN  IF Len(categories) = 0 \/ textField = "" THEN {}
        ELSE IF IsArray(data)
        THEN {callOf(data.v[i], i) : i \in {j \in 1..Len(data.v) : called(data.v[j])}}
        ELSE IF IsObject(data) /\ called(data) THEN {callOf(data, 1)}
        ELSE {}

\* categorizeData: out[i] is the outcome of the call for item i; a failed call
\* rejects Promise.all and the catch returns data
categorizeDataResult(data, categoriesOpt, textFieldOpt, out) ==
    LET categories == IF categoriesOpt.has THEN categoriesOpt.v ELSE <<>>
        textField == IF textFieldOpt.has THEN textFieldOpt.v ELSE ""
        called(item) == textField \in DOMAIN item.v /\ IsString(item.v[textField])
        categorized(item, i) ==
            IF called(item) THEN withCategory(item, categoryOf(out[i].g, categories))
            ELSE withCategory(item, Str("Other"))
    IN  IF Len(categories) = 0 \/ textField = "" THEN data
        ELSE IF IsArray(data)
        THEN IF \E i \in 1..Len(data.v) : called(data.v[i]) /\ answerFails(out[i])
             THEN data
             ELSE Arr([i \in 1..Len(data.v) |-> categorized(data.v[i], i)])
        ELSE IF IsObject(data)
        THEN IF called(data) /\ answerFails(out[1]) THEN data ELSE categorized(data, 1)
        ELSE data

(***************************************************************************)
(* The transform handler (handlers/transformHandler.js).                   *)
(***************************************************************************)
\* the steps, in the order the handler's if-blocks come
StepOrder == <<"clean", "validate", "enrich", "summarize", "categorize">>
Steps == Range(StepOrder)

\* the records a transform request carries
TRec(k) ==
    CASE k % 3 = 1 -> Obj([id |-> Num(k), name |-> Str(" A "), description |-> Str("")])
      [] k % 3 = 2 -> Obj([id |-> Num(k), text |-> Str("a long text about tech")])
      [] OTHER     -> Obj([id |-> Num(k), name |-> Str("b"), text |-> Str("short")])

TArray(n) == Arr([k \in 1..n |-> TRec(k)])

DataInputs == {TArray(n) : n \in 1..MaxRecords} \cup {TRec(1)}

\* the options a request may give each step
NoOpts == [none |-> TRUE]

Schema1 ==
    [required |-> Some(<<"id", "name">>),
     properties |-> Some(<<[field |-> "name", type |-> Some("string")]>>)]

CleanOptions ==
    { [removeEmpty |-> Some(TRUE), textFields |-> Some(Arr(<<"name">>)),
       textOptions |-> Some([trim |-> Some(TRUE)])],
      [dateFields |-> Some(Null)] }

ValidateOptions ==
    { [schema |-> Some(Schema1), removeInvalid |-> Some(TRUE)],
      [schema |-> Some(Schema1), removeInvalid |-> Absent],
      [schema |-> Absent, removeInvalid |-> Absent] }

EnrichOptions ==
    { [fields |-> Some(<<"name">>), instruction |-> Some("Add a greeting"), batchSize |-> Absent],
      [fields |-> Absent, instruction |-> Absent, batchSize |-> Absent] }

SummarizeOptions ==
    { [fields |-> Some(<<"text">>), maxLength |-> Some(10)] }

CategorizeOptions ==
    { [categories |-> Some(<<"Tech", "Health">>), field |-> Some("text")] }

OptionsOf(step) ==
    CASE step = "clean"     -> CleanOptions
      [] step = "validate"  -> ValidateOptions
      [] step = "enrich"    -> EnrichOptions
      [] step = "summarize" -> SummarizeOptions
      [] OTHER              -> CategorizeOptions

\* what a generation call settles with, for the enrichment, the summary and
\* the categorization of a request
EnrichOutcomes == {Rejected, Resolved([greeting |-> Str("Hello")])}

SummaryOutcomes == {Rejected, Resolved(Obj([summary |-> Str("about tech")]))}

CategoryOutcomes == {Rejected, Resolved(Str(" Tech ")), Resolved(Str("Finance"))}

\* a transformations object: its keys in insertion order, and their options
Transformations(keys, oc, ov, oe, os, og) ==
    [keys |-> keys,
     opts |-> [clean |-> IF "clean" \in Range(keys) THEN oc ELSE NoOpts,
               validate |-> IF "validate" \in Range(keys) THEN ov ELSE NoOpts,
               enrich |-> IF "enrich" \in Range(keys) THEN oe ELSE NoOpts,
               summarize |-> IF "summarize" \in Range(keys) THEN os ELSE NoOpts,
               categorize |-> IF "categorize" \in Range(keys) THEN og ELSE NoOpts]]

\* the requests: data or a recordId (or neither), transformations or none,
\* options.saveToDb
Requests(transformationsSet, dataSet) ==
    LET bodies ==
            {[data |-> Some(x), recordId |-> Absent, saveToDb |-> sv] :
                x \in dataSet, sv \in BOOLEAN}
            \cup {[data |-> Absent, recordId |-> Some("rec1"), saveToDb |-> FALSE],
                  [data |-> Absent, recordId |-> Absent, saveToDb |-> FALSE]}
    IN  {[data |-> b.data, recordId |-> b.recordId, transformations |-> t,
          saveToDb |-> b.saveToDb] :
            b \in bodies, t \in {Absent} \cup {Some(x) : x \in transformationsSet}}

EnrichIdle ==
    /\ eData = Null
    /\ eOpts = Absent
    /\ ePc = "idle"
    /\ batches = <<>>
    /\ bi = 0
    /\ batchPromises = <<>>
    /\ enrichedData = <<>>
    /\ eResult = Absent
    /\ callState = NoCalls(1..MaxItems)
    /\ callArg = [k \in 1..MaxItems |-> Absent]
    /\ genOut = [k \in 1..MaxItems |-> Pending]

TransformInitWith(transformationsSet, dataSet) ==
    /\ req \in Requests(transformationsSet, dataSet)
    /\ tPc = "start"
    /\ sourceData = Absent
    /\ dataRecord = Absent
    /\ transformedData = Absent
    /\ transformationResults = <<>>
    /\ response = Absent
    /\ db = Absent
    /\ stepLog = <<>>
    /\ EnrichIdle
    /\ CallIdle

\* the keys in the handler's own order, every choice of options
CanonicalKeys(K) == SelectSeq(StepOrder, LAMBDA st : st \in K)

TransformationsByOptions ==
    {Transformations(CanonicalKeys(K), oc, ov, oe, os, og) :
        K \in SUBSET Steps, oc \in CleanOptions, ov \in ValidateOptions,
        oe \in EnrichOptions, os \in SummarizeOptions, og \in CategorizeOptions}

Init == TransformInitWith(TransformationsByOptions, DataInputs)

\* the keys in every insertion order
KeyOrders ==
    {keys \in UNION {[1..n -> Steps] : n \in 0..Len(StepOrder)} :
        \A i, j \in 1..Len(keys) : keys[i] = keys[j] => i = j}

FirstOf(S) == CHOOSE x \in S : TRUE

TransformationsByKeyOrder ==
    {Transformations(keys, oc, FirstOf(ValidateOptions), FirstOf(EnrichOptions),
                     FirstOf(SummarizeOptions), FirstOf(CategorizeOptions)) :
        keys \in KeyOrders, oc \in CleanOptions}

InitKeyOrder == TransformInitWith(TransformationsByKeyOrder, {TRec(1), TArray(1)})

InitFair == TransformInitWith(TransformationsByOptions, {TArray(MaxRecords)})

\* an HTTP response of the handler
ErrorResponse(status, message) ==
    [status |-> status, success |-> FALSE, error |-> Some(message), data |-> Absent,
     transformations |-> Absent, recordId |-> Absent, warning |-> Absent]

SuccessResponse(data, results, recordId, warning) ==
    [status |-> 200, success |-> TRUE, error |-> Absent, data |-> Some(data),
     transformations |-> Some(results), recordId |-> recordId, warning |-> warning]

\* transformations.<step> is truthy
Requested(step) ==
    req.transformations.has /\ step \in Range(req.transformations.v.keys)

StepOptions(step) == req.transformations.v.opts[step]

\* mutant: the steps are run in the order of the keys of the configuration
nextPc_keyOrder(step) ==
    LET keys == req.transformations.v.keys
        at == {i \in 1..Len(keys) : keys[i] = step}
    IN  IF ~req.transformations.has \/ at = {}
        THEN CASE step = "clean"     -> "validate"
               [] step = "validate"  -> "enrich"
               [] step = "enrich"    -> "summarize"
               [] step = "summarize" -> "categorize"
               [] OTHER              -> "persist"
        ELSE LET i == CHOOSE i \in at : TRUE
             IN  IF i < Len(keys) THEN keys[i + 1] ELSE "persist"

\* the if-block that follows the block of a step
nextPc(step) ==
    CASE step = "clean"     -> "validate"
      [] step = "validate"  -> "enrich"
      [] step = "enrich"    -> "summarize"
      [] step = "summarize" -> "categorize"
      [] OTHER              -> "persist"

\* transformationResults.<step> = entry
SetEntry(results, step, entry) ==
    [k \in DOMAIN results \cup {step} |-> IF k = step THEN entry ELSE results[k]]

\* mutant: the catch resets the working data
onStepError_resets(preStepData, message) ==
    [data |-> Null, entry |-> [applied |-> FALSE, error |-> message]]

\* the catch of a step: the working data stays as it was handed to the step
\* and the entry is { applied: false, error: error.message }
onStepError(preStepData, message) ==
    [data |-> preStepData, entry |-> [applied |-> FALSE, error |-> message]]

Logged(step, input, outcome) ==
    [step |-> step, input |-> input, threw |-> outcome.threw,
     error |-> IF outcome.threw THEN outcome.error ELSE ""]

\* mutant: no try around the step, its error ends the handler
resumeAt_abort(step, outcome) ==
    IF outcome.threw THEN "done" ELSE nextPc(step)

\* the handler goes on with the if-block after the step's, whether the step's
\* try completed or its catch ran
resumeAt(step, outcome) == nextPc(step)

\* a step's if-block: skipped when the key is absent, else the try and its catch
\* around a call that returned outcome (with the entry its success records and
\* the working data its success assigns)
RunStep(step, outcome, entry, newData) ==
    /\ tPc = step
    /\ tPc' = IF Requested(step) THEN resumeAt(step, outcome) ELSE nextPc(step)
    /\ IF ~Requested(step)
       THEN UNCHANGED <<transformedData, transformationResults, stepLog>>
       ELSE /\ stepLog' = Append(stepLog, Logged(step, transformedData, outcome))
            /\ IF outcome.threw
               THEN LET c == onStepError(transformedData, outcome.error)
                    IN  /\ transformedData' = c.data
                        /\ transformationResults' = SetEntry(transformationResults, step, c.entry)
               ELSE /\ transformedData' = newData
                    /\ transformationResults' = SetEntry(transformationResults, step, entry)
    /\ UNCHANGED <<req, sourceData, dataRecord, response, db>>
    /\ UNCHANGED <<evars, cvars>>

\* validateConfig(), the check of the body, and the start of the lookup
TransformStart(configOk) ==
    /\ tPc = "start"
    /\ IF ~configOk
       THEN \* validateConfig throws: the outer catch answers
            /\ response' = Some(ErrorResponse(500, "MONGODB_URI environment variable is required"))
            /\ tPc' = "done"
            /\ UNCHANGED <<sourceData, transformedData>>
       ELSE IF ~(req.data.has /\ Truthy(req.data.v)) /\ ~req.recordId.has
       THEN /\ response' = Some(ErrorResponse(400, "Data or recordId is required"))
            /\ tPc' = "done"
            /\ UNCHANGED <<sourceData, transformedData>>
       ELSE IF req.recordId.has
       THEN /\ tPc' = "find"
            /\ UNCHANGED <<response, sourceData, transformedData>>
       ELSE /\ sourceData' = req.data
            /\ transformedData' = req.data.v
            /\ tPc' = "clean"
            /\ UNCHANGED response
    /\ UNCHANGED <<req, dataRecord, transformationResults, db, stepLog>>
    /\ UNCHANGED <<evars, cvars>>

\* dataRecord = await DataModel.findById(recordId): found is what it resolved
\* with (Absent for null), or the lookup failed
FindRecord(found, failed) ==
    /\ tPc = "find"
    /\ IF failed
       THEN /\ response' = Some(ErrorResponse(500, "Error retrieving data from database"))
            /\ tPc' = "done"
            /\ UNCHANGED <<dataRecord, db, sourceData, transformedData>>
       ELSE IF ~found.has
       THEN /\ response' = Some(ErrorResponse(404, "Record not found with ID"))
            /\ tPc' = "done"
            /\ UNCHANGED <<dataRecord, db, sourceData, transformedData>>
       ELSE /\ dataRecord' = found
            /\ db' = found
            /\ sourceData' = Some(found.v.raw)
            /\ IF ~Truthy(found.v.raw)
               THEN /\ response' = Some(ErrorResponse(400, "No data to transform"))
                    /\ tPc' = "done"
                    /\ UNCHANGED transformedData
               ELSE /\ transformedData' = found.v.raw
                    /\ tPc' = "clean"
                    /\ UNCHANGED response
    /\ UNCHANGED <<req, transformationResults, stepLog>>
    /\ UNCHANGED <<evars, cvars>>

\* the records the persistence collaborator may hold under the id
StoredRecords ==
    {[id |-> "rec1", raw |-> x, transformed |-> Absent, status |-> "raw",
      transformations |-> Absent] : x \in {TArray(MaxRecords), Null}}

StepClean ==
    /\ tPc = "clean"
    /\ LET outcome == cleanData(transformedData, StepOptions("clean"))
       IN  RunStep("clean", IF Requested("clean") THEN outcome ELSE Returned(Null),
                   [applied |-> TRUE],
                   IF Requested("clean") /\ ~outcome.threw THEN outcome.value ELSE Null)

\* transformationResults.validate, from what validateData returned
validateEntry(validationResult) ==
    [applied |-> TRUE, isValid |-> validationResult.isValid,
     invalidCount |-> IF validationResult.invalidItems.has
                      THEN Len(validationResult.invalidItems.v) ELSE 0]

\* validateData returns its own errors; the entry takes isValid and the number
\* of invalidItems, and the working data is replaced when removeInvalid is set
StepValidate ==
    /\ tPc = "validate"
    /\ LET options == StepOptions("validate")
           removeInvalid == OptOr(options, "removeInvalid", FALSE)
       IN  RunStep("validate", Returned(Null),
                   validateEntry(validateData(transformedData, options.schema, removeInvalid)),
                   IF removeInvalid
                   THEN validateData(transformedData, options.schema, removeInvalid).data
                   ELSE transformedData)

\* the number of records the working data holds
ItemCount(data) == IF IsArray(data) THEN Len(data.v) ELSE 1

\* transformedData = await enrichData(transformedData, transformations.enrich)
StepEnrich ==
    \/ /\ tPc = "enrich"
       /\ ~Requested("enrich")
       /\ RunStep("enrich", Returned(Null), [applied |-> TRUE], Null)
    \/ /\ tPc = "enrich"
       /\ Requested("enrich")
       /\ \E out \in [1..ItemCount(transformedData) -> EnrichOutcomes] :
            RunStep("enrich", Returned(Null), [applied |-> TRUE],
                    enrichDataResult(transformedData, StepOptions("enrich"), out))

\* transformedData = await generateSummaries(transformedData, fields, maxLength)
StepSummarize ==
    \/ /\ tPc = "summarize"
       /\ ~Requested("summarize")
       /\ RunStep("summarize", Returned(Null), [applied |-> TRUE], Null)
    \/ /\ tPc = "summarize"
       /\ Requested("summarize")
       /\ LET options == StepOptions("summarize")
              fields == IF options.fields.has THEN Range(options.fields.v) ELSE {}
          IN  \E out \in [(1..ItemCount(transformedData)) \X fields -> SummaryOutcomes] :
                RunStep("summarize", Returned(Null), [applied |-> TRUE],
                        generateSummariesResult(transformedData, options.fields,
                                                options.maxLength, out))

\* transformedData = await categorizeData(transformedData, categories, field)
StepCategorize ==
    \/ /\ tPc = "categorize"
       /\ ~Requested("categorize")
       /\ RunStep("categorize", Returned(Null), [applied |-> TRUE], Null)
    \/ /\ tPc = "categorize"
       /\ Requested("categorize")
       /\ LET options == StepOptions("categorize")
          IN  \E out \in [1..ItemCount(transformedData) -> CategoryOutcomes] :
                RunStep("categorize", Returned(Null), [applied |-> TRUE],
                        categorizeDataResult(transformedData, options.categories,
                                             options.field, out))

\* mutant: a failed save is answered as an error
saveFailed_answersError(data, results, warning) == ErrorResponse(500, warning)

\* catch (dbError): the answer carries the data, the report and a warning
saveFailed(data, results, warning) == SuccessResponse(data, results, Absent, Some(warning))

\* the record update, or the new record when saveToDb is set, and the answer
Persist(saveOk) ==
    /\ tPc = "persist"
    /\ tPc' = "done"
    /\ IF dataRecord.has
       THEN LET updated == [dataRecord.v EXCEPT
                                !.transformed = Some(transformedData),
                                !.status = "transformed",
                                !.transformations = Some(transformationResults)]
            IN  /\ dataRecord' = Some(updated)
                /\ IF saveOk
                   THEN /\ db' = Some(updated)
                        /\ response' = Some(SuccessResponse(transformedData,
                                transformationResults, Some(updated.id), Absent))
                   ELSE /\ UNCHANGED db
                        /\ response' = Some(saveFailed(transformedData,
                                transformationResults,
                                "Failed to update data in database"))
       ELSE IF req.saveToDb /\ ~req.recordId.has
       THEN LET newDataRecord == [id |-> "new1", raw |-> sourceData.v,
                                  transformed |-> Some(transformedData),
                                  status |-> "transformed",
                                  transformations |-> Some(transformationResults)]
            IN  /\ UNCHANGED dataRecord
                /\ IF saveOk
                   THEN /\ db' = Some(newDataRecord)
                        /\ response' = Some(SuccessResponse(transformedData,
                                transformationResults, Some(newDataRecord.id), Absent))
                   ELSE /\ UNCHANGED db
                        /\ response' = Some(saveFailed(transformedData,
                                transformationResults,
                                "Failed to save data to database"))
       ELSE /\ response' = Some(SuccessResponse(transformedData,
                                transformationResults, Absent, Absent))
            /\ UNCHANGED <<dataRecord, db>>
    /\ UNCHANGED <<req, sourceData, transformedData, transformationResults, stepLog>>
    /\ UNCHANGED <<evars, cvars>>

Next ==
    \/ \E configOk \in BOOLEAN : TransformStart(configOk)
    \/ \E found \in {Absent} \cup {Some(x) : x \in StoredRecords}, failed \in BOOLEAN :
            FindRecord(found, failed)
    \/ StepClean
    \/ StepValidate
    \/ StepEnrich
    \/ StepSummarize
    \/ StepCategorize
    \/ \E saveOk \in BOOLEAN : Persist(saveOk)

Spec == Init /\ [][Next]_vars

SpecKeyOrder == InitKeyOrder /\ [][Next]_vars

\* every await of the handler settles: the handler keeps taking steps
FairSpec == InitFair /\ [][Next]_vars /\ WF_vars(Next)

(***************************************************************************)
(* One call of generateSummaries or of categorizeData                      *)
(* (transformers/dataEnricher.js), with what the generation capability     *)
(* answers to each call it makes.                                          *)
(***************************************************************************)
\* the records summarized and categorized: record k carries id k
GRec(k) ==
    CASE k % 4 = 1 -> Obj([id |-> Num(k), text |-> Str("a long text about tech"),
                           title |-> Str("a long title")])
      [] k % 4 = 2 -> Obj([id |-> Num(k), text |-> Str("short"), title |-> Str("a long title")])
      [] k % 4 = 3 -> Obj([id |-> Num(k), text |-> Num(7)])
      [] OTHER     -> Obj([id |-> Num(k), title |-> Str("a long title"), category |-> Str("old")])

GArray(n) == Arr([k \in 1..n |-> GRec(k)])

GData == {GArray(n) : n \in 0..MaxItems} \cup {GRec(1), GRec(3), Str("scalar")}

\* what a summary call settles with
SummaryAnswers ==
    {Rejected, Resolved(Null),
     Resolved(Obj([summary |-> Str("about tech")])),
     Resolved(Obj([text |-> Str("a text")]))}

\* what a categorization call settles with
CategoryAnswers ==
    {Rejected, Resolved(Null), Resolved(Str(" Tech ")), Resolved(Str("tech")),
     Resolved(Str("Finance")), Resolved(Obj([category |-> Str("Health")]))}

SummarizeCalls ==
    {[fn |-> "generateSummaries", data |-> d, textFields |-> tf, maxLength |-> ml] :
        d \in GData,
        tf \in {Absent, Some(<<>>), Some(<<"text">>), Some(<<"text", "title">>),
                Some(<<"missing", "title">>)},
        ml \in {Absent, Some(5), Some(12)}}

CategorizeCalls ==
    {[fn |-> "categorizeData", data |-> d, categories |-> cs, textField |-> tf] :
        d \in GData,
        cs \in {Absent, Some(<<>>), Some(<<"Tech", "Health">>)},
        tf \in {Absent, Some("text"), Some("title")}}

\* the items of the data, by index, for a call on an array or on one record
ItemsOf(data) ==
    IF IsArray(data) THEN data.v ELSE IF IsObject(data) THEN <<data>> ELSE <<>>

CallInit(calls) ==
    /\ call \in {Some(c) : c \in calls}
    /\ gen = <<>>
    /\ issued = {}
    /\ ret = Absent
    /\ heap = <<>>
    /\ EnrichIdle
    /\ TransformIdle

\* the whole call: every generation call it makes settles, then it returns
GenerateSummaries ==
    /\ call.has /\ call.v.fn = "generateSummaries" /\ ~ret.has
    /\ LET c == call.v
           items == ItemsOf(c.data)
           fields == IF c.textFields.has THEN c.textFields.v ELSE <<>>
           maxLength == IF c.maxLength.has THEN c.maxLength.v ELSE DefaultMaxLength
           \* the fields a call may be made for
           pairs == {p \in (1..Len(items)) \X Range(fields) :
                        p[2] \in summaryFields(items[p[1]], fields, maxLength)}
       IN  \E out \in [pairs -> SummaryAnswers] :
                /\ gen' = out
                /\ issued' = summaryCalls(c.data, c.textFields, c.maxLength, out)
                /\ ret' = Some(Returned(generateSummariesResult(c.data, c.textFields,
                                                                c.maxLength, out)))
    /\ UNCHANGED <<call, heap, evars, tvars>>

CategorizeData ==
    /\ call.has /\ call.v.fn = "categorizeData" /\ ~ret.has
    /\ LET c == call.v
           calls == categoryCalls(c.data, c.categories, c.textField)
       IN  \E out \in [{k.index : k \in calls} -> CategoryAnswers] :
                /\ gen' = out
                /\ issued' = calls
                /\ ret' = Some(Returned(categorizeDataResult(c.data, c.categories,
                                                             c.textField, out)))
    /\ UNCHANGED <<call, heap, evars, tvars>>

VariantsNext == GenerateSummaries \/ CategorizeData

SpecVariants == CallInit(SummarizeCalls \cup CategorizeCalls) /\ [][VariantsNext]_vars

(***************************************************************************)
(* The generation clients (utils/openaiClient.js, utils/ollamaClient.js):  *)
(* enrichData sends the prompt, takes the JSON part of the response text   *)
(* and parses it.                                                          *)
(***************************************************************************)
\* the response texts of the model; ''' stands for the fence of three
\* backquotes
PlainJson == "{\"greeting\": \"Hello\"}"
JsonNewline == "{\"greeting\": \"Hello\"}\n"
FencedJson == "'''json\n{\"greeting\": \"Hello\"}\n'''"
FencedPlain == "'''\n{\"greeting\": \"Hello\"}\n'''"
FencedInText == "Sure!\n'''json\n{\"greeting\": \"Hello\"}\n'''\nBye"
FencedNotJson == "'''json\nnot json\n'''"
FenceUnclosedLine == "'''json\n{\"greeting\": \"Hello\"}'''"
Prose == "Hello John, welcome!"
NullText == "null"

Responses ==
    {PlainJson, JsonNewline, FencedJson, FencedPlain, FencedInText, FencedNotJson,
     FenceUnclosedLine, Prose, NullText}

\* response.match(/'''json\n([\s\S]*?)\n'''/) || response.match(/'''\n([\s\S]*?)\n'''/)
\* || [null, response], then jsonMatch[1] || response
extractJson(text) ==
    CASE text = FencedJson    -> PlainJson
      [] text = FencedPlain   -> PlainJson
      [] text = FencedInText  -> PlainJson
      [] text = FencedNotJson -> "not json"
      [] OTHER                    -> text

\* .replace(/^'''(json)?/, '').replace(/'''$/, '')
stripFences(str) ==
    CASE str = FenceUnclosedLine -> "\n{\"greeting\": \"Hello\"}"
      [] OTHER                   -> str

\* JSON.parse, on the texts of the model
JSONparse(str) ==
    CASE str = PlainJson -> Returned(Obj([greeting |-> Str("Hello")]))
      [] str = NullText  -> Returned(Null)
      [] OTHER           -> Threw("Unexpected token in JSON")

\* the inner try of the OpenAI client: JSON.parse(jsonStr.trim())
openaiParse(text) == JSONparse(trim(extractJson(text)))

\* the inner try of the Ollama client: the fences left at the ends are
\* stripped before JSON.parse
ollamaParse(text) == JSONparse(trim(stripFences(trim(extractJson(text)))))

\* { ...data }: the own keys of an object, none for null
spread(data) == IF IsObject(data) THEN data.v ELSE <<>>

\* { ...data, <extra> }
extended(data, extra) ==
    Obj([k \in DOMAIN spread(data) \cup DOMAIN extra |->
            IF k \in DOMAIN extra THEN extra[k] ELSE spread(data)[k]])

\* mutant: the parse error is handled like an API error, the raw text is lost
openaiEnrichData_discards(data, instruction, outcome) ==
    IF ~outcome.ok THEN data
    ELSE IF openaiParse(outcome.g).threw THEN data
    ELSE openaiParse(outcome.g).value

\* openaiClient.enrichData: outcome is what generateText settled with
openaiEnrichData(data, instruction, outcome) ==
    IF ~outcome.ok
    THEN \* the outer catch: return data
         data
    ELSE IF openaiParse(outcome.g).threw
    THEN extended(data, [enriched_text |-> Str(outcome.g)])
    ELSE openaiParse(outcome.g).value

\* ollamaClient.enrichData: outcome is what generateText settled with
ollamaEnrichData(data, instruction, outcome) ==
    IF ~Truthy(data)
    THEN extended(data, [_error |-> Str("No data provided for enrichment")])
    ELSE IF instruction = ""
    THEN extended(data, [_error |-> Str("No instruction provided for enrichment")])
    ELSE IF ~outcome.ok
    THEN extended(data, [_error |-> Str("Error generating text with Ollama")])
    ELSE IF ollamaParse(outcome.g).threw
    THEN extended(data, [enriched_text |-> Str(outcome.g),
                         _parse_error |-> Str(ollamaParse(outcome.g).error)])
    ELSE ollamaParse(outcome.g).value

\* what generateText settles with: it throws, or it returns the response text
TextOutcomes == {Rejected} \cup {Resolved(r) : r \in Responses}

ClientData ==
    {Rec(1), Obj([text |-> Str("a long text about tech")]),
     Obj([name |-> Str("John"), enriched_text |-> Str("old")]), Null}

ClientCalls ==
    {[fn |-> f, data |-> d, instruction |-> i] :
        f \in {"openaiClient.enrichData", "ollamaClient.enrichData"},
        d \in ClientData, i \in {"", "Add a greeting"}}

\* whether the call reaches generateText, and the parse of what it returned
clientParse(c, outcome) ==
    IF c.fn = "openaiClient.enrichData"
    THEN IF outcome.ok THEN Some(openaiParse(outcome.g)) ELSE Absent
    ELSE IF Truthy(c.data) /\ c.instruction # "" /\ outcome.ok
         THEN Some(ollamaParse(outcome.g)) ELSE Absent

ClientEnrichData ==
    /\ call.has /\ ~ret.has
    /\ call.v.fn \in {"openaiClient.enrichData", "ollamaClient.enrichData"}
    /\ LET c == call.v
       IN  \E outcome \in TextOutcomes :
                /\ gen' = [response |-> outcome, parsed |-> clientParse(c, outcome)]
                /\ issued' = IF c.fn = "ollamaClient.enrichData"
                                /\ ~(Truthy(c.data) /\ c.instruction # "")
                             THEN {}
                             ELSE {[data |-> c.data, instruction |-> c.instruction]}
                /\ ret' = Some(Returned(
                        IF c.fn = "openaiClient.enrichData"
                        THEN openaiEnrichData(c.data, c.instruction, outcome)
                        ELSE ollamaEnrichData(c.data, c.instruction, outcome)))
    /\ UNCHANGED <<call, heap, evars, tvars>>

SpecClient == CallInit(ClientCalls) /\ [][ClientEnrichData]_vars

(***************************************************************************)
(* One call of validateData (transformers/dataValidator.js).               *)
(***************************************************************************)
\* the records validated, and the elements of an array that are no records
VRec(k) ==
    CASE k = 1 -> Obj([id |-> Num(1), name |-> Str("John"), email |-> Str("john@example.com")])
      [] k = 2 -> Obj([id |-> Num(2), name |-> Null])
      [] k = 3 -> Obj([id |-> Str("3"), name |-> Str("b"), age |-> Num(200)])
      [] OTHER -> Obj([id |-> Num(4), name |-> Str("Jane"), age |-> Num(30),
                       tags |-> Arr(<<Str("a"), Num(5)>>),
                       address |-> Obj([city |-> Num(7)])])

VElements == {VRec(k) : k \in 1..4} \cup {Null, Str("scalar")}

VArrays == UNION {[1..n -> VElements] : n \in 0..MaxElements}

VData == {Arr(a) : a \in VArrays} \cup {VRec(k) : k \in 1..4} \cup {Null, Str("scalar"), Num(5)}

SchemaBounds ==
    [required |-> Some(<<"email">>),
     properties |-> Some(<<
        [field |-> "id", type |-> Some("number"), minimum |-> Some(2), maximum |-> Some(3)],
        [field |-> "name", type |-> Some("string"), minLength |-> Some(2),
         maxLength |-> Some(4), pattern |-> Some("^J")],
        [field |-> "email", type |-> Some("string"), pattern |-> Some("@")]>>)]

SchemaNested ==
    [required |-> Some(<<"id">>),
     properties |-> Some(<<
        [field |-> "name", enum |-> Some(<<Str("John"), Str("Jane")>>)],
        [field |-> "age", type |-> Some("number"), maximum |-> Some(150)],
        [field |-> "tags", type |-> Some("array"), minItems |-> Some(1),
         maxItems |-> Some(1), items |-> Some([type |-> Some("string")])],
        [field |-> "address", type |-> Some("object"), required |-> Some(<<"city", "zip">>),
         properties |-> Some(<<[field |-> "city", type |-> Some("string")]>>)]>>)]

SchemaBrokenPattern ==
    [properties |-> Some(<<[field |-> "name", type |-> Some("string"), pattern |-> Some("(")]>>)]

SchemaEmpty == [required |-> Some(<<>>)]

Schemas == {Schema1, SchemaBounds, SchemaNested, SchemaBrokenPattern, SchemaEmpty}

ValidateCalls ==
    {[fn |-> "validateData", data |-> d, schema |-> sc, removeInvalid |-> ri] :
        d \in VData, sc \in {Absent} \cup {Some(x) : x \in Schemas}, ri \in BOOLEAN}

ValidateData ==
    /\ call.has /\ call.v.fn = "validateData" /\ ~ret.has
    /\ ret' = Some(validateDataOutcome(call.v.data, call.v.schema, call.v.removeInvalid))
    /\ UNCHANGED <<call, gen, issued, heap, evars, tvars>>

SpecValidate == CallInit(ValidateCalls) /\ [][ValidateData]_vars

(***************************************************************************)
(* The same operations on a heap.  A JavaScript object or array is a cell  *)
(* at an address; a variable, a property or an element holds a primitive   *)
(* value or a reference Ref(a) to the cell at address a.  An assignment    *)
(* result[key] = value changes the cell result refers to, whoever else     *)
(* refers to it, so what a call does to the structures of its caller is    *)
(* visible in the heap.                                                    *)
(***************************************************************************)
Ref(a) == [t |-> "ref", a |-> a]

\* typeof x === 'object' && x !== null
IsRef(x) == x.t = "ref"

\* typeof x === 'object' && x !== null && !Array.isArray(x)
RefsObject(h, x) == IsRef(x) /\ h[x.a].t = "obj"

\* Array.isArray(x)
RefsArray(h, x) == IsRef(x) /\ h[x.a].t = "arr"

RECURSIVE valueAt(_, _)
\* the JSON value a variable holds: references followed to the cells
valueAt(h, x) ==
    IF ~IsRef(x) THEN x
    ELSE LET c == h[x.a]
         IN  IF c.t = "obj"
             THEN Obj([k \in DOMAIN c.v |-> valueAt(h, c.v[k])])
             ELSE Arr([i \in 1..Len(c.v) |-> valueAt(h, c.v[i])])

\* {} , [] , an object or array literal: a new cell
alloc(h, c) == [h |-> Append(h, c), r |-> Ref(Len(h) + 1)]

\* obj[key] = value
store(h, a, key, value) ==
    [h EXCEPT ![a].v = [k \in DOMAIN @ \cup {key} |-> IF k = key THEN value ELSE @[k]]]

\* array.push(value)
push(h, a, value) == [h EXCEPT ![a].v = Append(@, value)]

RECURSIVE KeysOf(_)
\* the keys of an object, or the indexes of an array, one after the other
KeysOf(S) ==
    IF S = {} THEN <<>>
    ELSE LET k == CHOOSE x \in S : TRUE
         IN  <<k>> \o KeysOf(S \ {k})

\* mutant: const result = item, no copy is made
copyOf_alias(h, x) ==
    IF IsRef(x) THEN [h |-> h, r |-> x] ELSE alloc(h, Obj(<<>>))

\* { ...item } , [...item] : a new cell with the properties of the item; the
\* spread of null or undefined has no properties
copyOf(h, x) ==
    IF IsRef(x) THEN alloc(h, h[x.a]) ELSE alloc(h, Obj(<<>>))

RECURSIVE heapRemoveEmptyValues(_, _)
RECURSIVE removeEntries(_, _, _, _)
RECURSIVE removeItems(_, _, _)

\* Object.entries(data).forEach(([key, value]) => ... result[key] = ...)
removeEntries(h, data, result, keys) ==
    IF keys = <<>> THEN h
    ELSE LET key == Head(keys)
             value == h[data].v[key]
         IN  IF IsRef(value)
             THEN LET n == heapRemoveEmptyValues(h, value)
                  IN  removeEntries(store(n.h, result, key, n.r), data, result, Tail(keys))
             ELSE IF value = Null \/ value = Str("")
             THEN removeEntries(h, data, result, Tail(keys))
             ELSE removeEntries(store(h, result, key, value), data, result, Tail(keys))

\* .map(item => typeof item === 'object' ? removeEmptyValues(item) : item)
removeItems(h, items, result) ==
    IF items = <<>> THEN h
    ELSE LET item == Head(items)
         IN  IF IsRef(item)
             THEN LET n == heapRemoveEmptyValues(h, item)
                  IN  removeItems(push(n.h, result, n.r), Tail(items), result)
             ELSE removeItems(push(h, result, item), Tail(items), result)

\* removeEmptyValues: the heap after the call and what it returned
heapRemoveEmptyValues(h, data) ==
    IF RefsArray(h, data)
    THEN LET kept == alloc(h, Arr(SelectSeq(h[data.a].v, LAMBDA item : IsRef(item) \/ item # Null)))
             mapped == alloc(kept.h, Arr(<<>>))
         IN  [h |-> removeItems(mapped.h, kept.h[kept.r.a].v, mapped.r.a), r |-> mapped.r]
    ELSE IF RefsObject(h, data)
    THEN LET result == alloc(h, Obj(<<>>))
         IN  [h |-> removeEntries(result.h, data.a, result.r.a,
                                  KeysOf(DOMAIN h[data.a].v)),
              r |-> result.r]
    ELSE [h |-> h, r |-> data]

\* a pass over named fields: standardizeDates(data, dateFields, dateFormat) or
\* cleanTextFields(data, textFields, options)
DatesPass(dateFields, dateFormat) ==
    [kind |-> "dates", fields |-> dateFields, dateFormat |-> dateFormat]
TextPass(textFields, options) ==
    [kind |-> "text", fields |-> textFields, options |-> options]

\* what the loop over the fields assigns to result[field]
passValue(value, pass) ==
    IF IsRef(value) THEN value
    ELSE IF pass.kind = "dates" THEN standardizeDate(value, pass.dateFormat)
    ELSE IF IsString(value) THEN Str(cleanText(value.v, pass.options))
    ELSE value

RECURSIVE passFields(_, _, _, _)
\* for (const field of fields) if (field in result && ...) result[field] = ...
passFields(h, result, fields, pass) ==
    IF fields = <<>> THEN h
    ELSE LET field == Head(fields)
         IN  IF h[result].t = "obj" /\ field \in DOMAIN h[result].v
             THEN passFields(store(h, result, field, passValue(h[result].v[field], pass)),
                             result, Tail(fields), pass)
             ELSE passFields(h, result, Tail(fields), pass)

RECURSIVE heapPass(_, _, _)
RECURSIVE passNested(_, _, _, _)
RECURSIVE passItems(_, _, _, _)

\* the processValue of standardizeDates and of cleanTextFields
processValue(h, item, pass) ==
    IF ~IsRef(item) THEN [h |-> h, r |-> item]
    ELSE LET result == copyOf(h, item)
             h1 == passFields(result.h, result.r.a, pass.fields, pass)
         IN  [h |-> passNested(h1, result.r.a, KeysOf(DOMAIN h1[result.r.a].v), pass),
              r |-> result.r]

\* for (const key in result) if (typeof result[key] === 'object' && ...)
\*     result[key] = standardizeDates(result[key], ...)
passNested(h, result, keys, pass) ==
    IF keys = <<>> THEN h
    ELSE LET key == Head(keys)
             value == h[result].v[key]
         IN  IF IsRef(value)
             THEN LET n == heapPass(h, value, pass)
                  IN  passNested(store(n.h, result, key, n.r), result, Tail(keys), pass)
             ELSE passNested(h, result, Tail(keys), pass)

\* data.map(processValue)
passItems(h, items, result, pass) ==
    IF items = <<>> THEN h
    ELSE LET n == processValue(h, Head(items), pass)
         IN  passItems(push(n.h, result, n.r), Tail(items), result, pass)

\* standardizeDates / cleanTextFields: the heap after the call and what it
\* returned
heapPass(h, data, pass) ==
    IF Len(pass.fields) = 0 THEN [h |-> h, r |-> data]
    ELSE IF RefsArray(h, data)
    THEN LET mapped == alloc(h, Arr(<<>>))
         IN  [h |-> passItems(mapped.h, h[data.a].v, mapped.r.a, pass), r |-> mapped.r]
    ELSE processValue(h, data, pass)

\* cleanData: the heap after the call and its outcome
heapCleanData(h, data, options) ==
    LET removeEmpty == OptOr(options, "removeEmpty", TRUE)
        dateFields  == OptOr(options, "dateFields", Arr(<<>>)).v
        dateFormat  == OptOr(options, "dateFormat", "ISO")
        textFields  == OptOr(options, "textFields", Arr(<<>>)).v
        textOptions == OptOr(options, "textOptions", <<>>)
        r1 == IF removeEmpty THEN heapRemoveEmptyValues(h, data) ELSE [h |-> h, r |-> data]
    IN  IF IsNullOpt(options, "dateFields")
        THEN [h |-> r1.h, out |-> Threw("Cannot read properties of null (reading 'length')")]
        ELSE LET r2 == heapPass(r1.h, r1.r, DatesPass(dateFields, dateFormat))
             IN  IF IsNullOpt(options, "textFields")
                 THEN [h |-> r2.h,
                       out |-> Threw("Cannot read properties of null (reading 'length')")]
                 ELSE IF Len(textFields) > 0 /\ IsNullOpt(options, "textOptions")
                 THEN [h |-> r2.h,
                       out |-> Threw("Cannot destructure property 'trim' of 'object null' as it is null.")]
                 ELSE LET r3 == heapPass(r2.h, r2.r, TextPass(textFields, textOptions))
                      IN  [h |-> r3.h, out |-> Returned(r3.r)]

\* the structures of the caller: a record with a nested object and a nested
\* array (holding a number, null and a second record), and an array of the two
\* records
CallerHeap ==
    << Obj([id |-> Num(1), name |-> Str(" a !"), note |-> Str(""),
            date |-> Str("2023-01-15"), address |-> Ref(2), tags |-> Ref(3)]),
       Obj([city |-> Str(" A "), zip |-> Null]),
       Arr(<<Num(7), Null, Ref(4)>>),
       Obj([name |-> Str(" A "), date |-> Num(1)]),
       Arr(<<Ref(1), Ref(4)>>) >>

\* what the caller passes: the record, the array, the nested array, the small
\* record, or no structure at all
CallerData == {Ref(1), Ref(5), Ref(3), Ref(4), Null, Str("a ")}

\* validateData: validateItem only reads; validItems is a new array of the
\* valid elements, and data is validItems or the very structure passed in
heapValidateData(h, data, schema, removeInvalid) ==
    LET r == validateData(valueAt(h, data), schema, removeInvalid)
    IN  IF RefsArray(h, data) /\ r.validItems.has
        THEN LET invalid == {r.invalidItems.v[k].index + 1 : k \in 1..Len(r.invalidItems.v)}
                 valid == SeqOfSet((1..Len(h[data.a].v)) \ invalid)
                 validItems == alloc(h, Arr([k \in 1..Len(valid) |-> h[data.a].v[valid[k]]]))
             IN  [h |-> validItems.h,
                  out |-> Returned([isValid |-> r.isValid,
                                    data |-> IF removeInvalid THEN validItems.r ELSE data])]
        ELSE [h |-> h, out |-> Returned([isValid |-> r.isValid, data |-> data])]

RECURSIVE reduceFields(_, _, _, _)
\* fields.reduce((obj, field) => { if (field in item) obj[field] = item[field] }, {})
reduceFields(h, item, obj, fields) ==
    IF fields = <<>> THEN h
    ELSE LET field == Head(fields)
         IN  IF h[item].t = "obj" /\ field \in DOMAIN h[item].v
             THEN reduceFields(store(h, obj, field, h[item].v[field]), item, obj, Tail(fields))
             ELSE reduceFields(h, item, obj, Tail(fields))

RECURSIVE assign(_, _, _, _)
\* the properties of source written to target, as a spread into a literal
assign(h, target, source, keys) ==
    IF keys = <<>> THEN h
    ELSE assign(store(h, target, Head(keys), source[Head(keys)]), target, source, Tail(keys))

\* what enrichWithOpenAI(data, instruction) does: it throws, it returns the
\* parsed answer (an object, or null), it returns { ...data, enriched_text }
\* when the answer is no JSON, or it returns data itself when the call failed
AnswerKinds == {"throws", "parsed", "null", "unparsed", "data"}
ParsedAnswer == [greeting |-> Str("Hello"), name |-> Str("a")]

enrichWithOpenAI(h, sent, kind) ==
    CASE kind = "parsed"   -> alloc(h, Obj(ParsedAnswer))
      [] kind = "null"     -> [h |-> h, r |-> Null]
      [] kind = "unparsed" -> LET c == copyOf(h, sent)
                              IN  [h |-> store(c.h, c.r.a, "enriched_text", Str("Hello")),
                                   r |-> c.r]
      [] OTHER             -> [h |-> h, r |-> sent]

\* processItem: the heap after the call and what it resolved with
heapProcessItem(h, item, fields, kind) ==
    IF fields.has /\ ~IsRef(item) /\ Len(fields.v) > 0
    THEN [h |-> alloc(h, Obj(<<>>)).h, r |-> item]
    ELSE LET obj == alloc(h, Obj(<<>>))
             sub == IF fields.has
                    THEN [h |-> IF IsRef(item)
                                THEN reduceFields(obj.h, item.a, obj.r.a, fields.v)
                                ELSE obj.h,
                          r |-> obj.r]
                    ELSE [h |-> h, r |-> item]
         IN  IF kind = "throws" THEN [h |-> sub.h, r |-> item]
             ELSE LET enrichedSubset == enrichWithOpenAI(sub.h, sub.r, kind)
                      result == copyOf(enrichedSubset.h, item)
                  IN  IF RefsObject(result.h, enrichedSubset.r)
                      THEN [h |-> assign(result.h, result.r.a,
                                         result.h[enrichedSubset.r.a].v,
                                         KeysOf(DOMAIN result.h[enrichedSubset.r.a].v)),
                            r |-> result.r]
                      ELSE result

RECURSIVE enrichItems(_, _, _, _, _)
\* batches[i].map(item => processItem(item, fields, instruction)), and
\* enrichedData.push(...batchResults)
enrichItems(h, items, result, fields, kinds) ==
    IF items = <<>> THEN h
    ELSE LET n == heapProcessItem(h, Head(items), fields, Head(kinds))
         IN  enrichItems(push(n.h, result, n.r), Tail(items), result, fields, Tail(kinds))

\* enrichData: the heap after the call and what it resolved with; kinds[i] is
\* what the generation call for item i does
heapEnrichData(h, data, options, kinds) ==
    IF NoInstruction(options) THEN [h |-> h, r |-> data]
    ELSE IF RefsArray(h, data)
    THEN LET enriched == alloc(h, Arr(<<>>))
         IN  [h |-> enrichItems(enriched.h, h[data.a].v, enriched.r.a, options.fields, kinds),
              r |-> enriched.r]
    ELSE IF RefsObject(h, data) THEN heapProcessItem(h, data, options.fields, kinds[1])
    ELSE [h |-> h, r |-> data]

RECURSIVE summarizeFields(_, _, _, _, _, _)
\* for (const field of textFields) ... result[field + '_summary'] = ... ; the
\* heap, and whether a call failed
summarizeFields(h, item, result, fields, maxLength, out) ==
    IF fields = <<>> THEN [h |-> h, failed |-> FALSE]
    ELSE LET field == Head(fields)
             value == IF field \in DOMAIN h[item].v THEN h[item].v[field] ELSE Null
         IN  IF IsString(value) /\ Len(value.v) > maxLength
             THEN IF answerFails(out[field]) THEN [h |-> h, failed |-> TRUE]
                  ELSE summarizeFields(
                           store(h, result, field \o "_summary",
                                 summaryValue(out[field].g, value)),
                           item, result, Tail(fields), maxLength, out)
             ELSE summarizeFields(h, item, result, Tail(fields), maxLength, out)

\* the body for one item: const result = { ...item }, then the fields; an
\* item that is no object makes 'field in item' throw
summarizeItem(h, item, fields, maxLength, out) ==
    LET result == copyOf(h, item)
    IN  IF ~IsRef(item) THEN [h |-> result.h, failed |-> TRUE, r |-> item]
        ELSE IF RefsArray(h, item) THEN [h |-> result.h, failed |-> FALSE, r |-> result.r]
        ELSE LET n == summarizeFields(result.h, item.a, result.r.a, fields, maxLength, out)
             IN  [h |-> n.h, failed |-> n.failed, r |-> result.r]

RECURSIVE summarizeItems(_, _, _, _, _, _, _)
\* data.map(async (item) => ...): the heap, and whether Promise.all rejected
summarizeItems(h, items, result, fields, maxLength, out, i) ==
    IF i > Len(items) THEN [h |-> h, failed |-> FALSE]
    ELSE LET n == summarizeItem(h, items[i], fields, maxLength, out[i])
         IN  IF n.failed
             THEN [h |-> summarizeItems(n.h, items, result, fields, maxLength, out, i + 1).h,
                   failed |-> TRUE]
             ELSE summarizeItems(push(n.h, result, n.r), items, result, fields,
                                 maxLength, out, i + 1)

\* generateSummaries: the heap after the call and what it resolved with;
\* out[i][f] is what the generation call for field f of item i settles with
heapGenerateSummaries(h, data, textFields, maxLengthOpt, out) ==
    LET maxLength == IF maxLengthOpt.has THEN maxLengthOpt.v ELSE DefaultMaxLength
        fields == IF textFields.has THEN textFields.v ELSE <<>>
    IN  IF Len(fields) = 0 THEN [h |-> h, r |-> data]
        ELSE IF RefsArray(h, data)
        THEN LET summaries == alloc(h, Arr(<<>>))
                 n == summarizeItems(summaries.h, h[data.a].v, summaries.r.a,
                                     fields, maxLength, out, 1)
             IN  [h |-> n.h, r |-> IF n.failed THEN data ELSE summaries.r]
        ELSE IF RefsObject(h, data)
        THEN LET n == summarizeItem(h, data, fields, maxLength, out[1])
             IN  [h |-> n.h, r |-> IF n.failed THEN data ELSE n.r]
        ELSE [h |-> h, r |-> data]

\* the body for one item of categorizeData: an item that is no object makes
\* 'textField in item' throw
categorizeItem(h, item, categories, textField, outcome) ==
    IF ~IsRef(item) THEN [h |-> h, failed |-> TRUE, r |-> item]
    ELSE IF RefsObject(h, item) /\ textField \in DOMAIN h[item.a].v
            /\ IsString(h[item.a].v[textField])
    THEN LET result == copyOf(h, item)
         IN  IF answerFails(outcome) THEN [h |-> result.h, failed |-> TRUE, r |-> item]
             ELSE [h |-> store(result.h, result.r.a, "category",
                               categoryOf(outcome.g, categories)),
                   failed |-> FALSE, r |-> result.r]
    ELSE LET result == copyOf(h, item)
         IN  [h |-> store(result.h, result.r.a, "category", Str("Other")),
              failed |-> FALSE, r |-> result.r]

RECURSIVE categorizeItems(_, _, _, _, _, _, _)
categorizeItems(h, items, result, categories, textField, out, i) ==
    IF i > Len(items) THEN [h |-> h, failed |-> FALSE]
    ELSE LET n == categorizeItem(h, items[i], categories, textField, out[i])
         IN  IF n.failed
             THEN [h |-> categorizeItems(n.h, items, result, categories, textField,
                                         out, i + 1).h,
                   failed |-> TRUE]
             ELSE categorizeItems(push(n.h, result, n.r), items, result, categories,
                                  textField, out, i + 1)

\* categorizeData: the heap after the call and what it resolved with; out[i]
\* is what the generation call for item i settles with
heapCategorizeData(h, data, categoriesOpt, textFieldOpt, out) ==
    LET categories == IF categoriesOpt.has THEN categoriesOpt.v ELSE <<>>
        textField == IF textFieldOpt.has THEN textFieldOpt.v ELSE ""
    IN  IF Len(categories) = 0 \/ textField = "" THEN [h |-> h, r |-> data]
        ELSE IF RefsArray(h, data)
        THEN LET categorized == alloc(h, Arr(<<>>))
                 n == categorizeItems(categorized.h, h[data.a].v, categorized.r.a,
                                      categories, textField, out, 1)
             IN  [h |-> n.h, r |-> IF n.failed THEN data ELSE categorized.r]
        ELSE IF RefsObject(h, data)
        THEN LET n == categorizeItem(h, data, categories, textField, out[1])
             IN  [h |-> n.h, r |-> IF n.failed THEN data ELSE n.r]
        ELSE [h |-> h, r |-> data]

\* the calls followed on the heap of the caller
FrameCleanOptions ==
    { [removeEmpty |-> Some(TRUE), dateFields |-> Some(Arr(<<"date">>)),
       textFields |-> Some(Arr(<<"name", "city">>)),
       textOptions |-> Some([trim |-> Some(TRUE), lowercase |-> Some(TRUE)])],
      [removeEmpty |-> Some(FALSE), textFields |-> Some(Arr(<<"name">>)),
       textOptions |-> Some([removeSpecialChars |-> Some(TRUE)])],
      [removeEmpty |-> Some(FALSE), dateFields |-> Some(Arr(<<"date">>)),
       dateFormat |-> Some("YYYY-MM-DD")],
      [dateFields |-> Some(Null)],
      [removeEmpty |-> Some(TRUE)] }

FrameEnrichOptions ==
    { [fields |-> Absent, instruction |-> Some("Add a greeting"), batchSize |-> Absent],
      [fields |-> Some(<<"name", "address">>), instruction |-> Some("Add a greeting"),
       batchSize |-> Absent],
      [fields |-> Absent, instruction |-> Absent, batchSize |-> Absent] }

FrameCalls ==
    {[fn |-> "cleanData", data |-> d, options |-> o] :
        d \in CallerData, o \in FrameCleanOptions}
    \cup {[fn |-> "validateData", data |-> d, schema |-> sc, removeInvalid |-> ri] :
        d \in CallerData, sc \in {Absent, Some(Schema1)}, ri \in BOOLEAN}
    \cup {[fn |-> "enrichData", data |-> d, options |-> o] :
        d \in CallerData, o \in FrameEnrichOptions}
    \cup {[fn |-> "generateSummaries", data |-> d, textFields |-> tf, maxLength |-> Some(2)] :
        d \in CallerData, tf \in {Absent, Some(<<"name">>), Some(<<"city", "name">>)}}
    \cup {[fn |-> "categorizeData", data |-> d, categories |-> Some(<<"Tech">>),
           textField |-> tf] :
        d \in CallerData, tf \in {Absent, Some("name")}}

FrameInit ==
    /\ call \in {Some(c) : c \in FrameCalls}
    /\ gen = <<>>
    /\ issued = {}
    /\ ret = Absent
    /\ heap = CallerHeap
    /\ EnrichIdle
    /\ TransformIdle

\* the number of items the call works on
FrameItems == IF RefsArray(heap, call.v.data) THEN Len(heap[call.v.data.a].v) ELSE 1

FrameCleanData ==
    /\ call.has /\ call.v.fn = "cleanData" /\ ~ret.has
    /\ LET n == heapCleanData(heap, call.v.data, call.v.options)
       IN  heap' = n.h /\ ret' = Some(n.out)
    /\ UNCHANGED <<call, gen, issued, evars, tvars>>

FrameValidateData ==
    /\ call.has /\ call.v.fn = "validateData" /\ ~ret.has
    /\ LET n == heapValidateData(heap, call.v.data, call.v.schema, call.v.removeInvalid)
       IN  heap' = n.h /\ ret' = Some(n.out)
    /\ UNCHANGED <<call, gen, issued, evars, tvars>>

FrameEnrichData ==
    /\ call.has /\ call.v.fn = "enrichData" /\ ~ret.has
    /\ \E kinds \in [1..FrameItems -> AnswerKinds] :
          LET n == heapEnrichData(heap, call.v.data, call.v.options, kinds)
          IN  heap' = n.h /\ ret' = Some(Returned(n.r)) /\ gen' = kinds
    /\ UNCHANGED <<call, issued, evars, tvars>>

FrameGenerateSummaries ==
    /\ call.has /\ call.v.fn = "generateSummaries" /\ ~ret.has
    /\ \E out \in [1..FrameItems -> [{"name", "city"} -> SummaryAnswers]] :
          LET n == heapGenerateSummaries(heap, call.v.data, call.v.textFields,
                                         call.v.maxLength, out)
          IN  heap' = n.h /\ ret' = Some(Returned(n.r)) /\ gen' = out
    /\ UNCHANGED <<call, issued, evars, tvars>>

FrameCategorizeData ==
    /\ call.has /\ call.v.fn = "categorizeData" /\ ~ret.has
    /\ \E out \in [1..FrameItems -> CategoryAnswers] :
          LET n == heapCategorizeData(heap, call.v.data, call.v.categories,
                                      call.v.textField, out)
          IN  heap' = n.h /\ ret' = Some(Returned(n.r)) /\ gen' = out
    /\ UNCHANGED <<call, issued, evars, tvars>>

FrameNext ==
    \/ FrameCleanData
    \/ FrameValidateData
    \/ FrameEnrichData
    \/ FrameGenerateSummaries
    \/ FrameCategorizeData

SpecFrame == FrameInit /\ [][FrameNext]_vars

(***************************************************************************)
(* Calls of cleanData (transformers/dataCleaner.js): a first call, and a   *)
(* second call on what the first one returned, with the same options.      *)
(***************************************************************************)
CRec(k) ==
    CASE k = 1 -> Obj([id |-> Num(1), name |-> Str(" a !"), note |-> Str(""),
                       tags |-> Arr(<<Str(" A "), Null, Str("a ")>>),
                       metadata |-> Obj(<<>>), date |-> Str("2023-01-15"),
                       address |-> Obj([city |-> Null, name |-> Str(" A ")]),
                       details |-> Obj([age |-> Null])])
      [] k = 2 -> Arr(<<Obj([id |-> Num(1), name |-> Str("  "), description |-> Str(""),
                             tags |-> Null, metadata |-> Obj(<<>>)]),
                        Null,
                        Obj([id |-> Num(2), name |-> Str("John"), tags |-> Arr(<<>>),
                             metadata |-> Null, date |-> Num(1)])>>)
      [] k = 3 -> Obj([name |-> Str("JOHN"), date |-> Str("2023-01-15T10:30:00.000Z"),
                       items |-> Arr(<<Str(""), Obj([id |-> Num(1), value |-> Null]),
                                       Arr(<<Null>>)>>)])
      [] k = 4 -> Obj([details |-> Obj([age |-> Null]), name |-> Str("a ")])
      [] k = 5 -> Arr(<<>>)
      [] k = 6 -> Str(" a ")
      [] OTHER -> Null

CleanInputs == {CRec(k) : k \in 1..7}

\* textOptions: every mix of trim, lowercase and removeSpecialChars
TextOptions ==
    {[trim |-> Some(t), lowercase |-> Some(l), removeSpecialChars |-> Some(r)] :
        t \in BOOLEAN, l \in BOOLEAN, r \in BOOLEAN}

CleanCallOptions ==
    {[removeEmpty |-> re, dateFields |-> Some(Arr(df)), dateFormat |-> Some(fmt),
      textFields |-> Some(Arr(tf)), textOptions |-> Some(to)] :
        re \in {Absent, Some(TRUE), Some(FALSE)},
        df \in {<<>>, <<"date">>},
        fmt \in {"ISO", "YYYY-MM-DD"},
        tf \in {<<>>, <<"name">>},
        to \in TextOptions}
    \cup {[removeEmpty |-> Some(TRUE)], [textFields |-> Some(Arr(<<"name", "tags">>))]}

CleanCalls ==
    {[fn |-> "cleanData", data |-> d, options |-> o] :
        d \in CleanInputs, o \in CleanCallOptions}
    \cup {[fn |-> "removeEmptyValues", data |-> d] : d \in CleanInputs}

\* result = removeEmptyValues(data)
RemoveEmptyValues ==
    /\ call.has /\ call.v.fn = "removeEmptyValues" /\ ~ret.has
    /\ ret' = Some(Returned(removeEmptyValues(call.v.data)))
    /\ UNCHANGED <<call, gen, issued, heap, evars, tvars>>

\* result = cleanData(data, options)
CleanData ==
    /\ call.has /\ call.v.fn = "cleanData" /\ ~ret.has
    /\ ret' = Some(cleanData(call.v.data, call.v.options))
    /\ UNCHANGED <<call, gen, issued, heap, evars, tvars>>

\* cleanData(result, options): the result is cleaned again
CleanAgain ==
    /\ call.has /\ call.v.fn = "cleanData" /\ ret.has /\ ~ret.v.threw /\ gen = <<>>
    /\ gen' = <<cleanData(ret.v.value, call.v.options)>>
    /\ UNCHANGED <<call, ret, issued, heap, evars, tvars>>

CleanNext == RemoveEmptyValues \/ CleanData \/ CleanAgain

SpecClean == CallInit(CleanCalls) /\ [][CleanNext]_vars

(***************************************************************************)
(* One request to orchestrate (handlers/orchestratorHandler.js).  The      *)
(* three stages are the handlers extract, transform and load; each catches *)
(* its own errors and resolves with a response {status, body}.  gen holds  *)
(* the stages invoked so far, each with the request it was given and the   *)
(* response it resolved with (Absent while it is awaited).                 *)
(***************************************************************************)
StageOrder == <<"extract", "transform", "load">>

\* source / destination of the body: missing, without a type, or with one
SourceConfigs == {Absent, Some([type |-> Absent]), Some([type |-> Some("api")])}
DestinationConfigs == {Absent, Some([type |-> Absent]), Some([type |-> Some("mongodb")])}

OrchestrateBodies ==
    {Absent} \cup
    {Some([source |-> s, destination |-> d, transformations |-> Some("clean"),
           saveIntermediateResults |-> o]) :
        s \in SourceConfigs, d \in DestinationConfigs,
        o \in {Absent, Some(TRUE), Some(FALSE)}}

OrchestrateCalls == {[fn |-> "orchestrate", body |-> b] : b \in OrchestrateBodies}

\* !source || !source.type
LacksType(config) == ~config.has \/ ~config.v.type.has

\* a stage's response {status, body: {success, error, data, recordId, ...}}
StageFailure(status, message) ==
    [status |-> status, success |-> FALSE, error |-> Some(message), data |-> Absent,
     recordId |-> Absent, transformations |-> Absent, result |-> Absent]

StageSuccess(data, recordId, transformations, result) ==
    [status |-> 200, success |-> TRUE, error |-> Absent, data |-> data,
     recordId |-> recordId, transformations |-> transformations, result |-> result]

\* what a stage may resolve with: a success, with or without a recordId, or
\* one of its error responses
StageResponses(stage) ==
    {StageFailure(400, stage), StageFailure(500, stage)} \cup
    {StageSuccess(IF stage = "load" THEN Absent ELSE Some(stage),
                  id,
                  IF stage = "transform" THEN Some("report") ELSE Absent,
                  IF stage = "load" THEN Some("loaded") ELSE Absent) :
        id \in {Absent, Some(stage)}}

\* mutant: only server errors stop the chain
stageFailed_serverErrorsOnly(stageResponse) == stageResponse.status >= 500

\* response.status !== 200 || !response.body.success
stageFailed(stageResponse) == stageResponse.status # 200 \/ ~stageResponse.success

\* saveToDb: options?.saveIntermediateResults !== false
saveIntermediate(body) == body.saveIntermediateResults # Some(FALSE)

\* transformResponse.body.recordId || recordId
firstId(a, b) == IF a.has THEN a ELSE b

\* the request handed to a stage, from the body and the earlier responses
stageRequest(stage, body, earlier) ==
    CASE stage = "extract" ->
            [source |-> body.source, saveToDb |-> Some(saveIntermediate(body)),
             data |-> Absent, recordId |-> Absent, transformations |-> Absent,
             destination |-> Absent]
      [] stage = "transform" ->
            [source |-> Absent, saveToDb |-> Some(saveIntermediate(body)),
             data |-> earlier[1].response.v.data,
             recordId |-> earlier[1].response.v.recordId,
             transformations |-> body.transformations, destination |-> Absent]
      [] OTHER ->
            [source |-> Absent, saveToDb |-> Absent,
             data |-> earlier[2].response.v.data,
             recordId |-> firstId(earlier[2].response.v.recordId,
                                  earlier[1].response.v.recordId),
             transformations |-> Absent, destination |-> body.destination]

\* the stage is called and awaited
invoke(stage, body, earlier) ==
    Append(earlier, [stage |-> stage, request |-> stageRequest(stage, body, earlier),
                     response |-> Absent])

\* the response of a complete run
OrchestrateSuccess(stages) ==
    [status |-> 200, success |-> TRUE,
     extractResult |-> [success |-> stages[1].response.v.success],
     transformResult |-> [success |-> stages[2].response.v.success,
                          transformations |-> stages[2].response.v.transformations],
     loadResult |-> stages[3].response.v.result,
     recordId |-> stages[3].response.v.recordId]

\* the body of an error answer of orchestrate itself
OrchestrateError(status, message) ==
    [status |-> status, success |-> FALSE, error |-> Some(message)]

\* validateConfig(), the checks of source and destination, the call of extract
OrchestrateStart(configOk) ==
    /\ call.has /\ call.v.fn = "orchestrate" /\ ~ret.has /\ gen = <<>>
    /\ IF ~configOk
       THEN \* validateConfig throws: the catch answers
            /\ ret' = Some(OrchestrateError(500, "MONGODB_URI environment variable is required"))
            /\ gen' = gen
       ELSE IF ~call.v.body.has \/ LacksType(call.v.body.v.source)
       THEN /\ ret' = Some(OrchestrateError(400, "Source configuration is required"))
            /\ gen' = gen
       ELSE IF LacksType(call.v.body.v.destination)
       THEN /\ ret' = Some(OrchestrateError(400, "Destination configuration is required"))
            /\ gen' = gen
       ELSE /\ gen' = invoke("extract", call.v.body.v, <<>>)
            /\ ret' = ret
    /\ UNCHANGED <<call, issued, heap, evars, tvars>>

\* the awaited stage resolves: its response is returned when it failed, the
\* next stage is called when it did not, and after load the answer is built
StageResolves(stageResponse) ==
    /\ call.has /\ call.v.fn = "orchestrate" /\ ~ret.has
    /\ gen # <<>> /\ ~gen[Len(gen)].response.has
    /\ stageResponse \in StageResponses(gen[Len(gen)].stage)
    /\ LET stages == [gen EXCEPT ![Len(gen)].response = Some(stageResponse)]
       IN  IF stageFailed(stageResponse)
           THEN /\ ret' = Some(stageResponse)
                /\ gen' = stages
           ELSE IF Len(stages) = Len(StageOrder)
           THEN /\ ret' = Some(OrchestrateSuccess(stages))
                /\ gen' = stages
           ELSE /\ gen' = invoke(StageOrder[Len(stages) + 1], call.v.body.v, stages)
                /\ ret' = ret
    /\ UNCHANGED <<call, issued, heap, evars, tvars>>

AllStageResponses == UNION {StageResponses(StageOrder[i]) : i \in 1..Len(StageOrder)}

OrchestrateNext ==
    \/ \E configOk \in BOOLEAN : OrchestrateStart(configOk)
    \/ \E stageResponse \in AllStageResponses : StageResolves(stageResponse)

SpecOrchestrate == CallInit(OrchestrateCalls) /\ [][OrchestrateNext]_vars

(***************************************************************************)
(* One call of retry (utils/errorHandler.js).  gen is the log of what      *)
(* retry did: the calls of fn, each with how it settled, the calls of      *)
(* onRetry, and the waits.                                                 *)
(***************************************************************************)
MaxRetries == 3

DefaultRetries == 3
DefaultInitialDelay == 1000
DefaultMaxDelay == 30000
DefaultFactor == 2

\* onRetry: not given, a callback that returns, or one that throws
OnRetryKinds == {"none", "returns", "throws"}

RetryOptions ==
    {[retries |-> r, initialDelay |-> d, maxDelay |-> m, onRetry |-> o] :
        r \in {Absent} \cup {Some(n) : n \in 0..MaxRetries},
        d \in {Absent, Some(100)},
        m \in {Absent, Some(150)},
        o \in OnRetryKinds}

RetryCalls == {[fn |-> "retry", options |-> o] : o \in RetryOptions}

\* the error the n-th call of fn rejects with, and the value it resolves with
ErrorOf(n) == "error of call " \o ToString(n)
ValueOf(n) == "result of call " \o ToString(n)

\* an entry of the log
FnCall(n, outcome) == [kind |-> "fn", attempts |-> n, delay |-> 0, outcome |-> outcome]
OnRetryCall(attempts, delay, error) ==
    [kind |-> "onRetry", attempts |-> attempts, delay |-> delay, outcome |-> Some(Threw(error))]
Wait(attempts, delay, fired) ==
    [kind |-> "wait", attempts |-> attempts, delay |-> delay,
     outcome |-> IF fired THEN Some(Returned("fired")) ELSE Absent]

\* the calls of fn in a log
FnCalls(log) == SelectSeq(log, LAMBDA e : e.kind = "fn")

\* attempts: the calls of fn that failed
failures(log) ==
    Len(SelectSeq(log, LAMBDA e : e.kind = "fn" /\ e.outcome.has /\ e.outcome.v.threw))

\* delay after the k-th failure: delay = Math.min(delay * factor, maxDelay)
RECURSIVE delayAfter(_, _)
delayAfter(k, options) ==
    IF k = 0 THEN OptOr(options, "initialDelay", DefaultInitialDelay)
    ELSE Min(delayAfter(k - 1, options) * DefaultFactor,
             OptOr(options, "maxDelay", DefaultMaxDelay))

\* mutant: one more call is made than retries allows
exhausted_onePast(attempts, options) ==
    attempts > OptOr(options, "retries", DefaultRetries)

\* attempts >= retries
exhausted(attempts, options) ==
    attempts >= OptOr(options, "retries", DefaultRetries)

\* the first pass of the loop: fn is called and awaited
RetryStart ==
    /\ call.has /\ call.v.fn = "retry" /\ ~ret.has /\ gen = <<>>
    /\ gen' = <<FnCall(1, Absent)>>
    /\ UNCHANGED <<call, ret, issued, heap, evars, tvars>>

\* what the catch block does after the call that made the log's last failure
afterFailure(log, options, error) ==
    LET attempts == failures(log)
        delay == delayAfter(attempts, options)
    IN  IF exhausted(attempts, options)
        THEN [log |-> log, ret |-> Some(Threw(error))]
        ELSE IF options.onRetry = "none"
        THEN [log |-> Append(log, Wait(attempts, delay, FALSE)), ret |-> Absent]
        ELSE IF options.onRetry = "throws"
        THEN [log |-> Append(log, OnRetryCall(attempts, delay, error)),
              ret |-> Some(Threw("error of onRetry"))]
        ELSE [log |-> log \o <<OnRetryCall(attempts, delay, error),
                               Wait(attempts, delay, FALSE)>>,
              ret |-> Absent]

\* the awaited call of fn settles: retry returns its value, or the catch runs
\* up to the await of the timer
FnSettles(ok) ==
    /\ call.has /\ call.v.fn = "retry" /\ ~ret.has
    /\ gen # <<>> /\ gen[Len(gen)].kind = "fn" /\ ~gen[Len(gen)].outcome.has
    /\ LET n == gen[Len(gen)].attempts
       IN  IF ok
           THEN /\ gen' = [gen EXCEPT ![Len(gen)].outcome = Some(Returned(ValueOf(n)))]
                /\ ret' = Some(Returned(ValueOf(n)))
           ELSE /\ gen' = afterFailure([gen EXCEPT ![Len(gen)].outcome = Some(Threw(ErrorOf(n)))],
                                       call.v.options, ErrorOf(n)).log
                /\ ret' = afterFailure([gen EXCEPT ![Len(gen)].outcome = Some(Threw(ErrorOf(n)))],
                                       call.v.options, ErrorOf(n)).ret
    /\ UNCHANGED <<call, issued, heap, evars, tvars>>

\* the timer fires: the loop goes round and fn is called again
TimerFires ==
    /\ call.has /\ call.v.fn = "retry" /\ ~ret.has
    /\ gen # <<>> /\ gen[Len(gen)].kind = "wait" /\ ~gen[Len(gen)].outcome.has
    /\ gen' = Append([gen EXCEPT ![Len(gen)].outcome = Some(Returned("fired"))],
                     FnCall(Len(FnCalls(gen)) + 1, Absent))
    /\ UNCHANGED <<call, ret, issued, heap, evars, tvars>>

RetryNext ==
    \/ RetryStart
    \/ \E ok \in BOOLEAN : FnSettles(ok)
    \/ TimerFires

SpecRetry == CallInit(RetryCalls) /\ [][RetryNext]_vars

(***************************************************************************)
(* enrichData on an array, with the loop that creates the batches followed *)
(* one iteration at a time and batchSize any integer.  bi is the loop      *)
(* index i (0-based) while the batches are created.                        *)
(***************************************************************************)
\* the iterations of the batch-creating loop that are followed
PartitionCap == MaxItems + 1

PartitionInit ==
    /\ eData \in {RecArray(n) : n \in 0..MaxItems}
    /\ eOpts \in [fields : {Some(<<"name">>)},
                  instruction : {Some("Add a greeting")},
                  batchSize : {Absent} \cup {Some(b) : b \in -MaxBatchSize..MaxBatchSize}]
    /\ ePc = "start"
    /\ batches = <<>>
    /\ bi = 0
    /\ batchPromises = <<>>
    /\ enrichedData = <<>>
    /\ eResult = Absent
    /\ callState = NoCalls(1..MaxItems)
    /\ callArg = [k \in 1..MaxItems |-> Absent]
    /\ genOut = [k \in 1..MaxItems |-> Pending]
    /\ TransformIdle
    /\ CallIdle

\* the index an argument of Array.prototype.slice stands for: a negative one
\* counts from the end, and both ends are clamped to the array
sliceIndex(k, len) ==
    IF k < 0 THEN (IF len + k < 0 THEN 0 ELSE len + k) ELSE Min(k, len)

\* data.slice(start, end)
slice(data, start, end) ==
    SubSeq(data, sliceIndex(start, Len(data)) + 1, sliceIndex(end, Len(data)))

\* const enrichedData = []; const batches = []; let i = 0
PartitionStart ==
    /\ ePc = "start"
    /\ ~NoInstruction(eOpts)
    /\ IsArray(eData)
    /\ ePc' = "partition"
    /\ bi' = 0
    /\ batches' = <<>>
    /\ UNCHANGED <<eData, eOpts, batchPromises, enrichedData, eResult,
                   callState, callArg, genOut>>
    /\ UNCHANGED <<tvars, cvars>>

\* i < data.length: batches.push(data.slice(i, i + batchSize)); i += batchSize
PartitionStep ==
    /\ ePc = "partition"
    /\ bi < Len(eData.v)
    /\ Len(batches) < PartitionCap
    /\ batches' = Append(batches, slice(eData.v, bi, bi + batchSizeOf(eOpts)))
    /\ bi' = bi + batchSizeOf(eOpts)
    /\ UNCHANGED <<eData, eOpts, ePc, batchPromises, enrichedData, eResult,
                   callState, callArg, genOut>>
    /\ UNCHANGED <<tvars, cvars>>

\* i >= data.length: the loop over the batches starts, or the empty result
\* is returned
PartitionEnd ==
    /\ ePc = "partition"
    /\ bi >= Len(eData.v)
    /\ IF Len(batches) = 0
       THEN /\ eResult' = Some(Arr(<<>>))
            /\ ePc' = "done"
            /\ UNCHANGED <<bi, batchPromises, callState, callArg>>
       ELSE /\ bi' = 1
            /\ batchPromises' = dispatch(batches[1])
            /\ IssueCalls(batches[1])
            /\ ePc' = "awaitBatch"
            /\ UNCHANGED eResult
    /\ UNCHANGED <<eData, eOpts, batches, enrichedData, genOut>>
    /\ UNCHANGED <<tvars, cvars>>

PartitionNext ==
    \/ PartitionStart
    \/ PartitionStep
    \/ PartitionEnd
    \/ \E p \in 1..MaxItems, outcome \in GenOutcomes : Settle(p, outcome)
    \/ BatchDone

\* every iteration that can be made is made, and every await settles
SpecPartition == PartitionInit /\ [][PartitionNext]_vars /\ WF_vars(PartitionNext)

(***************************************************************************)
(* Claims about enrichData, checked under SpecEnrich.                      *)
(***************************************************************************)
ArrayRun == IsArray(eData) /\ ~NoInstruction(eOpts)
NItems == IF IsArray(eData) THEN Len(eData.v) ELSE 1
InputItem(k) == IF IsArray(eData) THEN eData.v[k] ELSE eData
InFlight == {k \in DOMAIN callState : callState[k] = "inflight"}
Settled(k) == callState[k] \in {"resolved", "rejected"}

\* the record with the generated object g laid over it, key by key
IsEnriched(out, in, g) ==
    /\ IsObject(out)
    /\ DOMAIN out.v = DOMAIN in.v \cup DOMAIN g
    /\ \A k \in DOMAIN g : out.v[k] = g[k]
    /\ \A k \in DOMAIN in.v \ DOMAIN g : out.v[k] = in.v[k]

\* C5: when enrichData on an array of N records has returned and the
\* generation call failed for exactly one index i, the result is an array of
\* length N, result[i] is the original record i and every other position
\* holds the enriched record.
C5_PerItemIsolation ==
    (ePc = "done" /\ ArrayRun) =>
        \A i \in 1..NItems :
            (genOut[i] = Rejected /\ \A j \in (1..NItems) \ {i} : genOut[j].ok) =>
                /\ eResult.has
                /\ IsArray(eResult.v)
                /\ Len(eResult.v.v) = NItems
                /\ eResult.v.v[i] = eData.v[i]
                /\ \A j \in (1..NItems) \ {i} :
                        IsEnriched(eResult.v.v[j], eData.v[j], genOut[j].g)

C5_Witness ==
    /\ ePc = "done" /\ ArrayRun /\ NItems = MaxItems
    /\ Len(batches) > 1
    /\ genOut[2] = Rejected
    /\ \A j \in (1..NItems) \ {2} : genOut[j].ok
    /\ eResult.v.v[2] = eData.v[2]

\* C6: at every instant the number of generation calls issued and not yet
\* settled is at most batchSize.
C6_InFlightBounded ==
    Cardinality(InFlight) <= batchSizeOf(eOpts)

C6_Witness ==
    /\ ArrayRun /\ eOpts.batchSize.has
    /\ NItems > eOpts.batchSize.v
    /\ eOpts.batchSize.v > 1
    /\ Cardinality(InFlight) = eOpts.batchSize.v

RECURSIVE Concat(_)
Concat(ss) == IF Len(ss) = 0 THEN <<>> ELSE Head(ss) \o Concat(Tail(ss))

\* the batch (0-based) that consecutive batches of size bs put record k in
BatchOf(k, bs) == (k - 1) \div bs

\* C7: the batches are consecutive runs of batchSize records (the last
\* possibly shorter) and no generation call for a record of a later batch is
\* issued before every call of the earlier batches has settled.
C7_BatchesSequential ==
    ArrayRun =>
        LET bs == batchSizeOf(eOpts) IN
        /\ ePc \in {"awaitBatch", "done"} =>
              /\ Concat(batches) = eData.v
              /\ \A b \in 1..Len(batches) :
                    /\ Len(batches[b]) \in 1..bs
                    /\ b < Len(batches) => Len(batches[b]) = bs
        /\ \A j \in 1..NItems : callState[j] # "none" =>
              \A m \in 1..NItems : BatchOf(m, bs) < BatchOf(j, bs) => Settled(m)

C7_Witness ==
    /\ ArrayRun /\ ePc = "awaitBatch"
    /\ bi = 2 /\ Len(batches[1]) = 2
    /\ callState[3] = "inflight"
    /\ callState[1] = "rejected" /\ callState[2] = "resolved"

\* out is what processItem can make of the record in
DerivedFrom(out, in) ==
    \/ out = in
    \/ \E g \in GenObjects : IsEnriched(out, in, g)

\* C8: for every array, every positive batchSize and every completion order,
\* the output has the length of the input and the record at position i is
\* derived from the input record at position i.
C8_OrderPreserved ==
    (ePc = "done" /\ ArrayRun) =>
        /\ eResult.has /\ IsArray(eResult.v)
        /\ Len(eResult.v.v) = Len(eData.v)
        /\ \A i \in 1..Len(eData.v) :
              /\ DerivedFrom(eResult.v.v[i], eData.v[i])
              /\ genOut[i].ok => IsEnriched(eResult.v.v[i], eData.v[i], genOut[i].g)
              /\ ~genOut[i].ok => eResult.v.v[i] = eData.v[i]

C8_Witness ==
    /\ ePc = "done" /\ ArrayRun /\ NItems = MaxItems
    /\ Len(batches) > 1
    /\ genOut[1] # genOut[2] /\ genOut[1].ok /\ genOut[2].ok
    /\ Len(eResult.v.v) = MaxItems

\* C9: a record r enriched by a successful generation returning g has every
\* key of r and of g; keys in both take g's value; keys of r not in g keep
\* their value, also the keys the fields option kept out of the call.
C9_MergeLaw ==
    \A p \in 1..Len(batchPromises) :
        LET pr == batchPromises[p]
            out == genOut[IdOf(pr.item)]
        IN  (pr.state = "fulfilled" /\ out.ok) =>
                /\ DOMAIN pr.item.v \cup DOMAIN out.g \subseteq DOMAIN pr.value.v
                /\ \A k \in DOMAIN out.g : pr.value.v[k] = out.g[k]
                /\ \A k \in DOMAIN pr.item.v \ DOMAIN out.g :
                        pr.value.v[k] = pr.item.v[k]

C9_Witness ==
    /\ ePc = "awaitSingle"
    /\ eOpts.fields = Some(<<"name">>)
    /\ batchPromises[1].state = "fulfilled"
    /\ genOut[1] = Resolved([name |-> Str("JOHN"), score |-> Num(9)])
    /\ batchPromises[1].value.v["name"] = Str("JOHN")
    /\ batchPromises[1].value.v["email"] = Str("john@example.com")

Issued == {k \in 1..NItems : callState[k] # "none"}
AgreeOn(r1, r2, fs) ==
    \A f \in fs : /\ (f \in DOMAIN r1.v) = (f \in DOMAIN r2.v)
                  /\ f \in DOMAIN r1.v => r1.v[f] = r2.v[f]

\* C10: with fields given, the argument of a record's generation call holds
\* exactly the listed fields present in the record, so records that agree on
\* the listed fields are sent the same argument; with fields absent the whole
\* record is sent.
C10_OnlyListedFieldsSent ==
    \A k \in Issued :
        /\ callArg[k].has
        /\ IF eOpts.fields.has
           THEN LET fs == Range(eOpts.fields.v)
                    arg == callArg[k].v
                IN  /\ IsObject(arg)
                    /\ DOMAIN arg.v = fs \cap DOMAIN InputItem(k).v
                    /\ \A f \in DOMAIN arg.v : arg.v[f] = InputItem(k).v[f]
                    /\ \A j \in Issued :
                          AgreeOn(InputItem(k), InputItem(j), fs) => callArg[j] = callArg[k]
           ELSE callArg[k].v = InputItem(k)

C10_Witness ==
    /\ ArrayRun /\ eOpts.fields = Some(<<"name">>)
    /\ {1, 2} \subseteq Issued
    /\ InputItem(1) # InputItem(2)
    /\ callArg[1] = callArg[2]
    /\ callArg[1].v = Obj([name |-> Str("John")])

(***************************************************************************)
(* Claims about transform.                                                 *)
(***************************************************************************)
StepPcs == {"clean", "validate", "enrich", "summarize", "categorize", "persist"}

\* the handler got to the transformations (it did not answer 400, 404 or 500
\* before them)
PipelineEntered == transformedData # Absent

RequestedKeys == IF req.transformations.has THEN Range(req.transformations.v.keys) ELSE {}
RunSteps == [i \in 1..Len(stepLog) |-> stepLog[i].step]

\* C1 (checked under Spec): when a requested step raises an error, the
\* working data handed to the next step (and left as the working data) is the
\* data that was handed to the failed step, and the step's report entry is
\* {applied: false, error: <message>}.
C1_FailedStepKeepsPreStepData ==
    \A i \in 1..Len(stepLog) :
        stepLog[i].threw =>
            /\ stepLog[i].step \in DOMAIN transformationResults
            /\ transformationResults[stepLog[i].step] =
                    [applied |-> FALSE, error |-> stepLog[i].error]
            /\ IF i < Len(stepLog)
               THEN stepLog[i + 1].input = stepLog[i].input
               ELSE transformedData = stepLog[i].input

C1_Witness ==
    /\ tPc = "done"
    /\ Len(stepLog) > 1
    /\ stepLog[1].step = "clean" /\ stepLog[1].threw
    /\ stepLog[2].step = "validate"
    /\ stepLog[2].input = req.data.v
    /\ removeEmptyValues(req.data.v) # req.data.v

\* C2 (checked under FairSpec): once the handler has got to the
\* transformations, whatever the configuration and whichever steps fail, it
\* runs every requested step and eventually returns status 200 with success
\* true, the final working data and a report with exactly one entry per
\* requested step.
C2_AlwaysAnswersSuccess ==
    /\ [](tPc \in StepPcs => <>(tPc = "done"))
    /\ []((tPc = "done" /\ PipelineEntered) =>
            /\ response.has
            /\ response.v.status = 200
            /\ response.v.success
            /\ response.v.data = Some(transformedData)
            /\ response.v.transformations = Some(transformationResults)
            /\ DOMAIN transformationResults = RequestedKeys
            /\ Range(RunSteps) = RequestedKeys
            /\ Len(RunSteps) = Cardinality(RequestedKeys))

C2_Witness ==
    /\ tPc = "done"
    /\ response.v.status = 200
    /\ Len(stepLog) = 5
    /\ stepLog[1].threw
    /\ DOMAIN transformationResults = Steps
    /\ ~transformationResults["clean"].applied
    /\ transformationResults["categorize"].applied

ConfigError(step) ==
    \/ step = "enrich" /\ NoInstruction(StepOptions("enrich"))
    \/ step = "validate" /\ ~StepOptions("validate").schema.has

\* C4 (checked under Spec): a step run with a configuration error (enrich
\* without an instruction, validate without a schema) has the report entry
\* {applied: false, error: <message>}, leaves the working data as it was, and
\* the other requested steps still run.
C4_ConfigErrorsReported ==
    \A i \in 1..Len(stepLog) :
        ConfigError(stepLog[i].step) =>
            /\ ~transformationResults[stepLog[i].step].applied
            /\ "error" \in DOMAIN transformationResults[stepLog[i].step]
            /\ IF i < Len(stepLog)
               THEN stepLog[i + 1].input = stepLog[i].input
               ELSE transformedData = stepLog[i].input
            /\ (tPc = "done") => Range(RunSteps) = RequestedKeys

(***************************************************************************)
(* Further claims about enrichData, checked under SpecEnrich.              *)
(***************************************************************************)
\* the options hold no instruction, or an empty one
InstructionMissing == ~eOpts.instruction.has \/ eOpts.instruction.v = ""

\* C11: enrichData called without a non-empty instruction resolves to the
\* unmodified input data, issues no generation call, and never throws or
\* rejects: it never waits for anything and its only outcome is the input.
C11_NoInstructionReturnsInput ==
    InstructionMissing =>
        /\ \A k \in DOMAIN callState : callState[k] = "none" /\ callArg[k] = Absent
        /\ ePc \in {"start", "done"}
        /\ batchPromises = <<>>
        /\ (ePc = "done") => eResult = Some(eData)
        /\ (ePc = "start") => eResult = Absent

C11_Witness ==
    /\ ePc = "done"
    /\ eOpts.instruction = Some("")
    /\ IsArray(eData) /\ Len(eData.v) = MaxItems
    /\ eResult = Some(eData)

(***************************************************************************)
(* Claims about generateSummaries and categorizeData, checked under        *)
(* SpecVariants.                                                           *)
(***************************************************************************)
Returns(fn) == call.has /\ call.v.fn = fn /\ ret.has

\* what the generation capability answered to an issued call
AnswerTo(k) ==
    IF call.v.fn = "generateSummaries" THEN gen[<<k.index, k.field>>] ELSE gen[k.index]

\* the records a generation call was rejected for
RejectedRecords == {k.index : k \in {c \in issued : ~AnswerTo(c).ok}}

\* every call made for another record than i resolved with an answer
OthersAnswered(i) ==
    \A k \in issued : k.index # i => AnswerTo(k).ok /\ AnswerTo(k).g # Null

InputItems == ItemsOf(call.v.data)
OutputItems == ItemsOf(ret.v.value)

\* C12: for generateSummaries and categorizeData on an array where the
\* generation call fails for exactly one record, the call does not throw and
\* every other record of the output still carries its generated summary or
\* category.
C12_VariantFailureIsolated ==
    (ret.has /\ IsArray(call.v.data)) =>
        \A i \in 1..Len(InputItems) :
            (RejectedRecords = {i} /\ OthersAnswered(i)) =>
                /\ ~ret.v.threw
                /\ IsArray(ret.v.value)
                /\ Len(OutputItems) = Len(InputItems)
                /\ \A k \in issued :
                        k.index # i =>
                            IF call.v.fn = "generateSummaries"
                            THEN (k.field \o "_summary") \in DOMAIN OutputItems[k.index].v
                            ELSE /\ "category" \in DOMAIN OutputItems[k.index].v
                                 /\ "category" \in DOMAIN InputItems[k.index].v =>
                                        OutputItems[k.index].v["category"]
                                            # InputItems[k.index].v["category"]

\* the categories and the text field of a categorizeData call that has both
Categories == IF call.v.categories.has THEN Range(call.v.categories.v) ELSE {}
WellConfigured == Categories # {} /\ call.v.textField.has /\ call.v.textField.v # ""

\* C13: for categorizeData with a non-empty categories list and a textField,
\* every record for which the generation call returns has category equal to
\* the trimmed returned value when that is a member of categories and 'Other'
\* otherwise; a record whose textField is absent or not a string gets
\* 'Other' without a generation call; so the output category is always a
\* member of categories or 'Other'.
C13_CategoryValidated ==
    (Returns("categorizeData") /\ WellConfigured) =>
        \A i \in 1..Len(InputItems) :
            LET item == InputItems[i]
                f == call.v.textField.v
                hasText == f \in DOMAIN item.v /\ IsString(item.v[f])
                called == \E k \in issued : k.index = i
                out == OutputItems[i]
                category == out.v["category"]
            IN  /\ called <=> hasText
                /\ ~hasText => "category" \in DOMAIN out.v /\ category = Str("Other")
                /\ (called /\ gen[i].ok) =>
                        /\ "category" \in DOMAIN out.v
                        /\ IsString(category)
                        /\ category.v \in Categories \cup {"Other"}
                        /\ IsString(gen[i].g) =>
                                category.v = IF trim(gen[i].g.v) \in Categories
                                             THEN trim(gen[i].g.v) ELSE "Other"

\* C14: generateSummaries issues a generation call for field f of a record if
\* and only if f is listed in textFields, the record's value at f is a string
\* and its length exceeds maxLength; for every other field no call is made,
\* no '<f>_summary' key is added and the field is left as it was; when a call
\* is made its result is attached under '<f>_summary' and the original field
\* is kept.
C14_SummaryShortCircuit ==
    Returns("generateSummaries") =>
        LET listed == IF call.v.textFields.has THEN Range(call.v.textFields.v) ELSE {}
            maxLength == IF call.v.maxLength.has THEN call.v.maxLength.v ELSE 100
        IN  \A i \in 1..Len(InputItems) :
                LET item == InputItems[i]
                    out == OutputItems[i]
                IN  \A f \in listed \cup DOMAIN item.v :
                        LET qualifies == /\ f \in listed
                                         /\ f \in DOMAIN item.v
                                         /\ IsString(item.v[f])
                                         /\ Len(item.v[f].v) > maxLength
                            called == \E k \in issued : k.index = i /\ k.field = f
                            key == f \o "_summary"
                        IN  /\ called <=> qualifies
                            /\ f \in DOMAIN item.v =>
                                    f \in DOMAIN out.v /\ out.v[f] = item.v[f]
                            /\ ~called => key \notin DOMAIN out.v
                            /\ (called /\ gen[<<i, f>>].ok /\ gen[<<i, f>>].g # Null) =>
                                    /\ key \in DOMAIN out.v
                                    /\ out.v[key] = summaryValue(gen[<<i, f>>].g, item.v[f])

(***************************************************************************)
(* Claims about the generation clients, checked under SpecClient.          *)
(***************************************************************************)
\* the response text came back and the client could not parse it as JSON
ParseFailed == ret.has /\ gen.response.ok /\ gen.parsed.has /\ gen.parsed.v.threw

\* C15: when the generation capability returns text that cannot be parsed as
\* JSON (after extracting a fenced code block if one is present), the
\* client's enrichData does not fail: it returns a record holding every key of
\* the data it was given plus enriched_text equal to the raw response text.
C15_ParseFailureKeepsRecord ==
    ParseFailed =>
        /\ ~ret.v.threw
        /\ IsObject(ret.v.value)
        /\ DOMAIN spread(call.v.data) \subseteq DOMAIN ret.v.value.v
        /\ "enriched_text" \in DOMAIN ret.v.value.v
        /\ ret.v.value.v["enriched_text"] = Str(gen.response.g)

C15_Witness ==
    /\ ParseFailed
    /\ call.v.fn = "openaiClient.enrichData"
    /\ gen.response.g = FencedNotJson
    /\ call.v.data = Rec(1)
    /\ ret.v.value.v["enriched_text"] = Str(FencedNotJson)

(***************************************************************************)
(* Claims about validateData, checked under SpecValidate.                  *)
(***************************************************************************)
\* validateData was called on an array, with a schema, and has returned
ArrayValidated ==
    /\ call.has /\ call.v.fn = "validateData" /\ ret.has
    /\ IsArray(call.v.data) /\ call.v.schema.has

\* validateData was called on one record, with a schema, and has returned
RecordValidated ==
    /\ call.has /\ call.v.fn = "validateData" /\ ret.has
    /\ IsObject(call.v.data) /\ call.v.schema.has

\* the element is valid against the schema when it is validated on its own
ValidAlone(element, schema) == validateData(Arr(<<element>>), Some(schema), FALSE).isValid

\* the input indexes (0-based) the result lists as invalid
InvalidIndexes(result) == {result.invalidItems.v[k].index : k \in 1..Len(result.invalidItems.v)}

\* the elements of an array at the indexes (1-based) of a set, in order
Picked(items, indexes) == [k \in 1..Cardinality(indexes) |-> items[SeqOfSet(indexes)[k]]]

\* C16: for validateData on an array, validItems and invalidItems partition
\* the input, validItems keeps the input's relative order, each invalidItems
\* entry records the element's index in the input, isValid is true if and
\* only if invalidItems is empty, data is validItems when removeInvalid is
\* true and the original array otherwise, and with removeInvalid true
\* data.length is the number of elements valid against the schema.
C16_ArrayPartition ==
    ArrayValidated =>
        LET items == call.v.data.v
            result == ret.v.value
            invalid == {i + 1 : i \in InvalidIndexes(result)}
        IN  /\ ~ret.v.threw
            /\ result.validItems.has /\ result.invalidItems.has
            /\ invalid \subseteq 1..Len(items)
            /\ Cardinality(invalid) = Len(result.invalidItems.v)
            /\ \A k \in 1..Len(result.invalidItems.v) :
                    result.invalidItems.v[k].item = items[result.invalidItems.v[k].index + 1]
            /\ result.validItems.v = Picked(items, (1..Len(items)) \ invalid)
            /\ result.isValid <=> (result.invalidItems.v = <<>>)
            /\ result.data = IF call.v.removeInvalid
                             THEN Arr(result.validItems.v) ELSE call.v.data
            /\ call.v.removeInvalid =>
                    Len(result.data.v) =
                        Cardinality({i \in 1..Len(items) : ValidAlone(items[i], call.v.schema.v)})

\* C17: in array mode every element is validated independently: element i is
\* placed in validItems if and only if it is valid against the schema on its
\* own, whatever the other elements are, also when another element is null
\* or a scalar.
C17_ElementsIndependent ==
    ArrayValidated =>
        LET items == call.v.data.v
            result == ret.v.value
            placedValid(i) ==
                /\ result.validItems.has
                /\ result.invalidItems.has
                /\ (i - 1) \notin InvalidIndexes(result)
        IN  \A i \in 1..Len(items) :
                placedValid(i) <=> ValidAlone(items[i], call.v.schema.v)

\* the try block of the call ends with an error: no schema, an element that
\* is null or a scalar, a pattern that is no regular expression
InternalError ==
    validateDataTry(call.v.data, call.v.schema, call.v.removeInvalid).threw

\* C18: validateData never throws, for any data and any schema (a missing
\* schema, scalar data, arrays holding elements that are no objects): every
\* internal error is returned as a result with isValid false and errors
\* holding the error message.
C18_ValidateNeverThrows ==
    (call.has /\ call.v.fn = "validateData" /\ ret.has) =>
        /\ ~ret.v.threw
        /\ InternalError =>
                /\ ~ret.v.value.isValid
                /\ ret.v.value.errors =
                        Some(<<validateDataTry(call.v.data, call.v.schema,
                                               call.v.removeInvalid).error>>)
                /\ ret.v.value.data = call.v.data

C18_Witness ==
    /\ ret.has /\ ~ret.v.threw
    /\ call.v.data = Arr(<<VRec(1), Null>>)
    /\ call.v.schema = Some(Schema1)
    /\ ~ret.v.value.isValid
    /\ ret.v.value.errors = Some(<<"Cannot use 'in' operator to search for 'id' in null">>)

\* the value satisfies the constraints the schema of its field states
RECURSIVE Satisfies(_, _)
Conforms(value, fs) ==
    LET type == Kw(fs, "type")
        is(t) == type.has /\ type.v = t
    IN  /\ type.has => isValidType(type.v, value)
        /\ Kw(fs, "enum").has => value \in Range(fs.enum.v)
        /\ (is("number") /\ Kw(fs, "minimum").has) => value.v >= fs.minimum.v
        /\ (is("number") /\ Kw(fs, "maximum").has) => value.v <= fs.maximum.v
        /\ (is("string") /\ Kw(fs, "minLength").has) => Len(value.v) >= fs.minLength.v
        /\ (is("string") /\ Kw(fs, "maxLength").has) => Len(value.v) <= fs.maxLength.v
        /\ (is("string") /\ Kw(fs, "pattern").has) =>
                ~regexInvalid(fs.pattern.v) /\ regexTest(fs.pattern.v, value.v)
        /\ (is("object") /\ Kw(fs, "properties").has) => Satisfies(value, fs)
        /\ (is("array") /\ Kw(fs, "minItems").has) => Len(value.v) >= fs.minItems.v
        /\ (is("array") /\ Kw(fs, "maxItems").has) => Len(value.v) <= fs.maxItems.v
        /\ (is("array") /\ Kw(fs, "items").has /\ Kw(fs.items.v, "type").has) =>
                \A e \in Range(value.v) :
                    /\ isValidType(fs.items.v.type.v, e)
                    /\ (fs.items.v.type.v = "object" /\ Kw(fs.items.v, "properties").has)
                            => Satisfies(e, fs.items.v)

\* the record has every required field and every field it has satisfies the
\* constraints of its schema
Satisfies(record, schema) ==
    /\ Kw(schema, "required").has =>
            \A f \in Range(schema.required.v) :
                f \in DOMAIN record.v /\ record.v[f] # Null
    /\ Kw(schema, "properties").has =>
            \A k \in 1..Len(schema.properties.v) :
                LET fs == schema.properties.v[k]
                IN  fs.field \in DOMAIN record.v => Conforms(record.v[fs.field], fs)

\* the schema without the fields the record does not have
PresentOnly(record, schema) ==
    IF Kw(schema, "properties").has
    THEN [k \in DOMAIN schema |->
            IF k = "properties"
            THEN Some(SelectSeq(schema.properties.v,
                                LAMBDA fs : fs.field \in DOMAIN record.v))
            ELSE schema[k]]
    ELSE schema

FrameReturned == call.has /\ "data" \in DOMAIN call.v /\ ret.has /\ Len(heap) >= Len(CallerHeap)

\* the cells the caller had before the call, as they are now
CallerCells == SubSeq(heap, 1, Len(CallerHeap))

\* C20: after cleanData, validateData, enrichData, generateSummaries or
\* categorizeData returns, with a result or after an internal failure, the
\* record or array passed in and every object nested in it are unchanged;
\* for one record, the data of validateData's result is the input itself.
C20_InputNotMutated ==
    FrameReturned =>
        /\ CallerCells = CallerHeap
        /\ valueAt(heap, call.v.data) = valueAt(CallerHeap, call.v.data)
        /\ (call.v.fn = "validateData" /\ RefsObject(CallerHeap, call.v.data)) =>
                ret.v.value.data = call.v.data

\* cleanData returned an array of cleaned copies and the caller's array, its
\* records and their nested objects are as before
C20_Witness ==
    /\ FrameReturned
    /\ call.v.fn = "cleanData"
    /\ call.v.data = Ref(5)
    /\ ~ret.v.threw
    /\ valueAt(heap, ret.v.value) # valueAt(CallerHeap, call.v.data)
    /\ valueAt(heap, ret.v.value).v[1].v["address"] = Obj([city |-> Str("a")])
    /\ CallerCells = CallerHeap

(***************************************************************************)
(* Claims about cleanData, checked under SpecClean.                        *)
(***************************************************************************)
\* cleanData returned, and what it returned was cleaned again
CleanedTwice == call.has /\ call.v.fn = "cleanData" /\ ret.has /\ gen # <<>>

\* C21: cleanData is idempotent: for every input and every combination of
\* options, cleaning the result again with the same options gives the result.
C21_CleanIdempotent ==
    CleanedTwice => (~gen[1].threw /\ gen[1].value = ret.v.value)

\* cleanData returned a value
Cleaned == call.has /\ call.v.fn = "cleanData" /\ ret.has /\ ~ret.v.threw

\* the elements of the input array that an output array of another length
\* corresponds to: the ones that are not null
NonNull(items) == SelectSeq(items, LAMBDA item : item # Null)

\* every object of res has only keys of the object of src at the same place;
\* the elements of an array of res stand, in order, for the elements of the
\* array of src, or for its elements that are not null
RECURSIVE KeysWithin(_, _)
KeysWithin(res, src) ==
    IF IsObject(res)
    THEN /\ IsObject(src)
         /\ DOMAIN res.v \subseteq DOMAIN src.v
         /\ \A k \in DOMAIN res.v \cap DOMAIN src.v : KeysWithin(res.v[k], src.v[k])
    ELSE IF IsArray(res)
    THEN /\ IsArray(src)
         /\ LET from == IF Len(res.v) = Len(src.v) THEN src.v ELSE NonNull(src.v)
            IN  /\ Len(res.v) = Len(from)
                /\ \A i \in 1..Len(res.v) \cap 1..Len(from) : KeysWithin(res.v[i], from[i])
    ELSE TRUE

\* C22: cleanData never introduces a key: at every nesting level, the keys
\* of an object of the result are keys of the corresponding object of the input.
C22_NoKeyIntroduced ==
    Cleaned => KeysWithin(ret.v.value, call.v.data)

\* an array of records that lost an element and keys, with a text pass
C22_Witness ==
    /\ Cleaned
    /\ call.v.data = CRec(2)
    /\ Len(OptOr(call.v.options, "textFields", Arr(<<>>)).v) > 0
    /\ Len(ret.v.value.v) = 2
    /\ DOMAIN ret.v.value.v[1].v = {"id", "name", "metadata"}

\* removeEmptyValues returned
Emptied == call.has /\ call.v.fn = "removeEmptyValues" /\ ret.has

\* res is src without the keys whose value is null, undefined or '' and
\* without the array elements that are null or undefined, at every level;
\* whatever else src holds is in res, in order
RECURSIVE Stripped(_, _)
Stripped(res, src) ==
    IF IsObject(src)
    THEN /\ IsObject(res)
         /\ DOMAIN res.v = {k \in DOMAIN src.v : src.v[k] \notin {Null, Str("")}}
         /\ \A k \in DOMAIN res.v \cap DOMAIN src.v : Stripped(res.v[k], src.v[k])
    ELSE IF IsArray(src)
    THEN /\ IsArray(res)
         /\ Len(res.v) = Len(NonNull(src.v))
         /\ \A i \in 1..Len(res.v) \cap 1..Len(NonNull(src.v)) :
               Stripped(res.v[i], NonNull(src.v)[i])
    ELSE res = src

RecordsOf(data) == IF IsArray(data) THEN NonNull(data.v) ELSE <<data>>

\* C24: cleanData with removeEmpty: true removes an object key whose value
\* is an empty object, while it keeps a key whose value is an empty array.
C24_EmptyObjectRemoved ==
    (Cleaned /\ call.v.options = [removeEmpty |-> Some(TRUE)]) =>
        \A i \in 1..Len(RecordsOf(call.v.data)) :
            LET src == RecordsOf(call.v.data)[i]
                res == RecordsOf(ret.v.value)[i]
            IN  IsObject(src) =>
                  \A k \in DOMAIN src.v :
                     /\ src.v[k] = Obj(<<>>) => k \notin DOMAIN res.v
                     /\ src.v[k] = Arr(<<>>) => k \in DOMAIN res.v

\* the options of the cleanData call, with the defaults of the destructuring
CleanOpt(name, default) == OptOr(call.v.options, name, default)

\* the three passes, each either applied to the whole value or left out
EmptyStage(data) ==
    IF CleanOpt("removeEmpty", TRUE) THEN removeEmptyValues(data) ELSE data
DateStage(data) ==
    IF Len(CleanOpt("dateFields", Arr(<<>>)).v) > 0
    THEN standardizeDates(data, CleanOpt("dateFields", Arr(<<>>)).v, CleanOpt("dateFormat", "ISO"))
    ELSE data
TextStage(data) ==
    IF Len(CleanOpt("textFields", Arr(<<>>)).v) > 0
    THEN cleanTextFields(data, CleanOpt("textFields", Arr(<<>>)).v, CleanOpt("textOptions", <<>>))
    ELSE data

Orchestrating == call.has /\ call.v.fn = "orchestrate"

\* the stages invoked so far, in the order of their invocation
Invoked == [i \in 1..Len(gen) |-> gen[i].stage]

\* the stage invoked i-th returned status 200 with success true
Passed(i) ==
    /\ gen[i].response.has
    /\ gen[i].response.v.status = 200
    /\ gen[i].response.v.success

\* the request has source.type and destination.type
FullyConfigured ==
    /\ call.v.body.has
    /\ call.v.body.v.source.has /\ call.v.body.v.source.v.type.has
    /\ call.v.body.v.destination.has /\ call.v.body.v.destination.v.type.has

\* extract, transform, load in this order, each only for a request with
\* source.type and destination.type and after every earlier stage passed; the
\* response of a stage that failed is the answer, and no stage follows it
StagesGated ==
    /\ Len(gen) <= Len(StageOrder)
    /\ Invoked = SubSeq(StageOrder, 1, Len(gen))
    /\ gen # <<>> => FullyConfigured
    /\ \A i \in 1..Len(gen) :
          /\ i < Len(gen) => Passed(i)
          /\ (gen[i].response.has /\ ~Passed(i)) =>
                (i = Len(gen) /\ ret = Some(gen[i].response.v))

\* validateConfig threw: the service itself is not configured
ConfigRejected ==
    ret = Some(OrchestrateError(500, "MONGODB_URI environment variable is required"))

\* C26 as stated: the stages are invoked in the order extract, transform,
\* load, a stage only if the request has source.type and destination.type
\* and every earlier stage returned status 200 with success true; a request
\* lacking the source or destination configuration is answered with status
\* 400 before any stage runs; when a stage fails its response is returned and
\* no later stage is invoked.
C26_StagesInOrder ==
    Orchestrating =>
        /\ StagesGated
        /\ (ret.has /\ ~FullyConfigured) => (ret.v.status = 400 /\ gen = <<>>)

\* C26, amended: as above, but a request lacking the source or destination
\* configuration is answered with status 400 only when validateConfig
\* passes; when validateConfig throws the answer is status 500, and in both
\* cases no stage runs.
C26_StagesInOrderWhenConfigured ==
    Orchestrating =>
        /\ StagesGated
        /\ (ret.has /\ ~FullyConfigured) =>
              (gen = <<>> /\ (ret.v.status = 400 \/ ConfigRejected))
        /\ ConfigRejected => gen = <<>>

\* extract passed, transform failed: its response is the answer and load was
\* not invoked
C26_Witness ==
    /\ Orchestrating
    /\ Len(gen) = 2
    /\ Passed(1)
    /\ gen[2].response.has /\ ~Passed(2)
    /\ ret = Some(gen[2].response.v)

(***************************************************************************)
(* Claims about retry, checked under SpecRetry.                            *)
(***************************************************************************)
Retrying == call.has /\ call.v.fn = "retry"

\* the retries option, with its default
Retries == OptOr(call.v.options, "retries", DefaultRetries)

\* the calls of onRetry made after the i-th call of fn
OnRetriesAfter(i) ==
    Len(SelectSeq(gen, LAMBDA e : e.kind = "onRetry" /\ e.attempts = i))

OnRetryCalls == Len(SelectSeq(gen, LAMBDA e : e.kind = "onRetry"))

\* the i-th call of fn resolved
CallSucceeded(i) ==
    /\ FnCalls(gen)[i].outcome.has
    /\ ~FnCalls(gen)[i].outcome.v.threw

\* at most retries calls; the first success is the result and the last call;
\* retries failures in a row reject with the error of the last one; every
\* failed call that another call follows had onRetry called once after it
RetryBounded ==
    /\ Len(FnCalls(gen)) <= Retries
    /\ \A i \in 1..Len(FnCalls(gen)) :
          /\ CallSucceeded(i) =>
                (i = Len(FnCalls(gen)) /\ ret = Some(Returned(ValueOf(i))))
          /\ (i < Len(FnCalls(gen)) /\ call.v.options.onRetry # "none") =>
                OnRetriesAfter(i) = 1
    /\ (ret.has /\ ~ret.v.threw) => CallSucceeded(Len(FnCalls(gen)))
    /\ failures(gen) = Retries => ret = Some(Threw(ErrorOf(Retries)))

\* the number of onRetry calls of a finished run: the failed calls when it
\* succeeded, retries - 1 when it failed
OnRetryTotals ==
    (ret.has /\ call.v.options.onRetry # "none") =>
        OnRetryCalls = IF ret.v.threw THEN Retries - 1 ELSE failures(gen)

C28_EnrichTerminates ==
    /\ [][(ePc = "partition" /\ ePc' = "partition") => bi' > bi]_vars
    /\ <>(/\ ePc = "done"
          /\ eResult.has
          /\ IsArray(eResult.v)
          /\ Len(eResult.v.v) = Len(eData.v))

(***************************************************************************)
(* Further claims about the transform handler, checked under Spec.         *)
(***************************************************************************)
\* the handler is at its persistence block and has a save to make: the
\* update of the found record, or the new record when saveToDb is set
SavePending ==
    /\ tPc = "persist"
    /\ dataRecord.has \/ (req.saveToDb /\ ~req.recordId.has)

\* the answer of a successful transformation for the data and the report
\* the handler holds
AnswersTransformation(answer) ==
    /\ answer.has
    /\ answer.v.status = 200
    /\ answer.v.success
    /\ answer.v.data = Some(transformedData)
    /\ answer.v.transformations = Some(transformationResults)

\* C29: a failure of the persistence call (the update of the found record, or
\* the save of a new record when saveToDb is set) never changes the outcome
\* of the transformation: whether the save fails or not, the answer is status
\* 200 with success true, the working data and the report; a failed save
\* leaves the database as it was and adds a warning.
C29_SaveFailureKeepsOutcome ==
    [][SavePending =>
        /\ AnswersTransformation(response')
        /\ transformedData' = transformedData
        /\ transformationResults' = transformationResults
        /\ response'.v.warning.has <=> db' = db]_vars

\* the update of a found record failed after a step changed the data
C29_Witness ==
    /\ tPc = "done"
    /\ dataRecord.has
    /\ response.has /\ response.v.warning = Some("Failed to update data in database")
    /\ response.v.data = Some(transformedData)
    /\ Len(stepLog) > 0
    /\ transformedData # sourceData.v

\* the validate step has just run and has written its report entry
Validated ==
    /\ tPc = "enrich"
    /\ Requested("validate")
    /\ "validate" \in DOMAIN transformationResults
    /\ transformationResults["validate"].applied
    /\ stepLog # <<>>
    /\ stepLog[Len(stepLog)].step = "validate"

\* C30: in the report entry of the validate step, isValid is true if and
\* only if invalidCount is 0, for a single record as for an array; and with
\* removeInvalid on an array, the working data after the step is as long as
\* the working data before it minus invalidCount.
C30_ValidateEntryConsistent ==
    Validated =>
        LET entry == transformationResults["validate"]
            before == stepLog[Len(stepLog)].input
        IN  /\ entry.isValid <=> entry.invalidCount = 0
            /\ (OptOr(StepOptions("validate"), "removeInvalid", FALSE) /\ IsArray(before)) =>
                  (/\ IsArray(transformedData)
                   /\ Len(transformedData.v) = Len(before.v) - entry.invalidCount)

====
